---- MODULE Spec2Model ----
(***************************************************************************)
(* A model of the pipe client of the vibium Python SDK                     *)
(* (clients/python/src/vibium/client.py): BiDiClient, its correlation      *)
(* table _pending, its receive loop and its event handler list; and of the *)
(* sync bridge (_sync_base.py: _EventLoopThread) with the sync Browser     *)
(* that owns one (sync_api/browser.py).                                    *)
(*                                                                         *)
(* One step of the model is one uninterrupted run of code on the asyncio   *)
(* event loop, from one suspension point (await) to the next.              *)
(* asyncio.wait_for, StreamWriter.drain and Task.cancel behave as in       *)
(* CPython 3.11 (asyncio/tasks.py, asyncio/streams.py).                    *)
(***************************************************************************)
EXTENDS Naturals, Sequences, FiniteSets, TLC

\* Number of send() calls made on the client.
MaxSends == 2

\* Longest list of registered event handlers.
MaxHandlers == 3

\* Number of close() calls made on the client.
MaxCloses == 2

\* Longest list of lines read before the ready signal.
MaxBuffered == 2

\* Number of start() calls made on one bridge.
MaxStarts == 3

\* Number of stop() calls made on one bridge.
MaxStops == 2

\* Number of callbacks registered on the lists of one Page.
MaxCallbacks == 2

\* Number of routes registered on one Page.
MaxRoutes == 2

\* Number of decision calls a sync route handler makes on its Route.
MaxCalls == 2

\* Number of callbacks registered on one list of the Browser.
MaxListeners == 2

\* Number of lines written to stdout ahead of the receive loop.
MaxWritten == 3

\* The _setup tasks in flight and the collectors of the server, together,
\* of one Page.
MaxCollectors == 2

\* The vibium:page.route commands in flight and the intercepts of the
\* server, together, of one Page.
MaxIntercepts == 2

\* self._next_id = 1
FirstId == 1

Callers == 1..MaxSends

\* The ids a response line may carry: every id send can issue, and one more
\* that is never issued.
WireIds == FirstId..(FirstId + MaxSends)

\* Event handlers, named by what their body does when invoked: return,
\* raise an Exception, or call remove_event_handler on themselves.
Handlers == {"plain", "raises", "once"}

VARIABLES
    next_id,          \* self._next_id
    pending,          \* self._pending: id -> the send call whose future it holds
    fut,              \* the future each send call created
    pc,               \* where each send call is
    msg_id,           \* msg_id of each send call
    outcome,          \* how each send call ended
    elapsed,          \* whether the timeout of each send call has elapsed
    receiver_task,    \* self._receiver_task: the state of _receive_loop
    stdin,            \* the write side of the pipe
    close_pc,         \* where close() is
    event_handlers,   \* self._event_handlers
    last_effect,      \* what _dispatch_message did with the last line read
    last_dispatch,    \* the handlers before, and those invoked by, the last event
    close_calls,      \* how many times close() has been called
    pre_ready_lines,  \* process._pre_ready_lines: lines read before the ready signal
    replayed,         \* what connect() did with each line it replayed
    bridge_loop,      \* _EventLoopThread._loop: 0 for None, or the loop's number
    bridge_thread,    \* _EventLoopThread._thread: 0 for None, or the thread's number
    loops,            \* how many event loops have been created
    workers,          \* the state of each worker thread
    start_calls,      \* how many times start() has been called
    last_start,       \* the loop the last start() returned
    stop_pc,          \* where stop() is
    stops,            \* how many times stop() has returned
    run_pc,           \* where run() is
    op,               \* the future of the operation run() submitted
    run_out,          \* how the last run() ended
    browser_pc,       \* where the sync Browser is
    callbacks,        \* Page._<kind>_callbacks, by event kind
    data_collector_id, \* Page._data_collector_id
    setup_tasks,      \* the _setup tasks of _ensure_data_collector in flight
    collectors,       \* the data collectors of the Page the server holds
    removals,         \* the network.removeDataCollector commands in flight
    waiter_pc,        \* where each capture waiter is
    waiter_fut,       \* the future of each capture waiter
    waiter_kind,      \* the callback list each waiter's handler was put on
    waiter_pattern,   \* the URL pattern of each waiter
    waiter_elapsed,   \* whether the timeout of each waiter has elapsed
    last_event,       \* what the Page did with the last event it was handed
    routes,           \* Page._routes
    intercept_id,     \* Page._intercept_id
    route_pc,         \* where route() is
    unroute_pc,       \* where unroute() is
    last_request,     \* what the Page did with the last blocked request
    intercepts,       \* the intercepts of the Page the server has installed
    other_route_pc,   \* where a route() call beside the first is
    page_callbacks,   \* Browser._page_callbacks
    popup_callbacks,  \* Browser._popup_callbacks
    seen_context_ids, \* Browser._seen_context_ids
    last_context,     \* what the Browser did with the last contextCreated
    stdout,           \* the lines written to the pipe and not yet read
    lines_written,    \* how many lines have been written ahead of the loop
    last_read,        \* the number of the last of those lines that was read
    scheduled,        \* the send calls that are follow-up tasks of sync handlers
    loop_thread,      \* whether the thread of the event loop is free or blocked
    dispatching,      \* where the loop thread is in a Browser callback list
    last_mutation     \* the last change the calling thread made to such a list

vars == <<next_id, pending, fut, pc, msg_id, outcome, elapsed, receiver_task,
          stdin, close_pc, event_handlers, last_effect, last_dispatch,
          close_calls, pre_ready_lines, replayed, bridge_loop, bridge_thread,
          loops, workers, start_calls, last_start, stop_pc, stops, run_pc, op,
          run_out, browser_pc, callbacks, data_collector_id, setup_tasks,
          collectors, removals, waiter_pc, waiter_fut, waiter_kind, waiter_pattern, waiter_elapsed, last_event,
          routes, intercept_id, route_pc, unroute_pc, last_request,
          intercepts, other_route_pc, page_callbacks, popup_callbacks, seen_context_ids, last_context,
          stdout, lines_written, last_read, scheduled, loop_thread,
          dispatching, last_mutation>>

sendVars == <<next_id, pending, fut, pc, msg_id, outcome, elapsed>>

\* The lines buffered while the process starts, and their replay.
startVars == <<pre_ready_lines, replayed>>

\* The sync bridge (_EventLoopThread) and the sync Browser that owns it.
bridgeVars == <<bridge_loop, bridge_thread, loops, workers, start_calls,
                last_start, stop_pc, stops, run_pc, op, run_out, browser_pc>>

\* The callback lists of a Page and the capture waiters on them.
collectorVars == <<data_collector_id, setup_tasks, collectors, removals>>

\* The callback lists of a Page and the capture waiters on them.
listenerVars == <<callbacks, collectorVars, waiter_pc, waiter_fut,
                  waiter_kind, waiter_pattern, waiter_elapsed, last_event>>

\* The routes of a Page.
interceptVars == <<intercepts, other_route_pc>>

\* The routes of a Page.
routeVars == <<routes, intercept_id, route_pc, unroute_pc, last_request,
               interceptVars>>

\* The page and popup callbacks of a Browser.
contextVars == <<page_callbacks, popup_callbacks, seen_context_ids,
                 last_context>>

\* A Page and the Browser it belongs to.
pageVars == <<listenerVars, routeVars, contextVars>>

\* The pipe from the binary's stdout to the StreamReader of the client.
transportVars == <<stdout, lines_written, last_read>>

\* The sync API on top of the client: the tasks its handlers schedule on
\* the event loop, and the thread of that loop.
syncVars == <<scheduled, loop_thread, dispatching, last_mutation>>

\* What the steps of a connected client other than close() leave alone.
otherVars == <<close_calls, startVars, bridgeVars, pageVars, transportVars,
               syncVars>>

\* The connection of the async client.
connVars == <<sendVars, receiver_task, stdin, close_pc, event_handlers,
              last_effect, last_dispatch, close_calls, startVars,
              transportVars, syncVars>>

\* The async client and its pages, which the steps of the bridge leave
\* alone.
clientVars == <<connVars, pageVars>>

-----------------------------------------------------------------------------
\* Futures (asyncio.Future): not created, pending, holding a response,
\* holding ConnectionError, or cancelled.

NoFuture == [state |-> "none", id |-> 0, type |-> "none"]

PendingFuture == [state |-> "pending", id |-> 0, type |-> "none"]

CancelledFuture == [state |-> "cancelled", id |-> 0, type |-> "none"]

\* future.set_exception(ConnectionError("Connection closed"))
ConnectionClosed == [state |-> "exception", id |-> 0, type |-> "ConnectionError"]

\* future.set_result(data)
SetResult(line) == [state |-> "result", id |-> line.id, type |-> line.type]

\* future.done()
Done(f) == f.state \in {"result", "exception", "cancelled"}

-----------------------------------------------------------------------------
\* The lines the remote binary can write to stdout.

Response(i, t) == [kind |-> "response", id |-> i, type |-> t]

Event(m) == [kind |-> "event", id |-> 0, type |-> m]

\* A line that is not JSON.
NonJson == [kind |-> "nonjson", id |-> 0, type |-> "none"]

\* A JSON value that is not an object (a list, a number, a string, null).
NonObject == [kind |-> "nonobject", id |-> 0, type |-> "none"]

\* Bytes that are not UTF-8: line_bytes.decode() raises UnicodeDecodeError.
Undecodable == [kind |-> "undecodable", id |-> 0, type |-> "none"]

\* An object with both an id and a method, as a command has.
Command(i) == [kind |-> "command", id |-> i, type |-> "success"]

\* An object with neither an id nor a method.
Other == [kind |-> "other", id |-> 0, type |-> "none"]

\* An object whose id is a JSON list or object: "msg_id in self._pending"
\* raises TypeError (unhashable type).
UnhashableId == [kind |-> "unhashable", id |-> 0, type |-> "none"]

\* data.get("id") is not None
HasId(line) == line.kind \in {"response", "command", "unhashable"}

\* Whether the id can be looked up in a dict: a number or a string.
Hashable(line) == line.kind # "unhashable"

\* "method" in data
HasMethod(line) == line.kind \in {"event", "command"}

Lines == {Response(i, t) : i \in WireIds, t \in {"success", "error"}}
         \cup {Command(i) : i \in WireIds}
         \cup {Event("x.y"), NonJson, NonObject, Undecodable, Other,
               UnhashableId}

-----------------------------------------------------------------------------
\* How a send call ends.

NoOutcome == [kind |-> "none", id |-> 0]

Raised(e) == [kind |-> e, id |-> 0]

\* A send that does not look at the response's type.
OutcomeOf_NoErrorCheck(f) ==
    IF f.state = "exception" THEN Raised(f.type)
    ELSE [kind |-> "result", id |-> f.id]

\* What send does with the future's outcome once wait_for hands it over:
\* raise BiDiError for an error response, return response.get("result")
\* otherwise; an exception stored in the future is raised as it is.
OutcomeOf(f) ==
    IF f.state = "exception" THEN Raised(f.type)
    ELSE IF f.type = "error" THEN [kind |-> "BiDiError", id |-> f.id]
    ELSE [kind |-> "result", id |-> f.id]

\* A send without its finally clause.
Pop_Keep(p, i) == p

\* self._pending.pop(msg_id, None)
Pop(p, i) == [j \in (DOMAIN p) \ {i} |-> p[j]]

\* A send that has not stored its future when the request is written.
Store_Late(p, i, c) == p

\* self._pending[msg_id] = future
Store(p, i, c) == [j \in (DOMAIN p) \cup {i} |-> IF j = i THEN c ELSE p[j]]

\* A send that does not advance the counter.
NextIdAfter_Stuck(n) == n

\* self._next_id += 1
NextIdAfter(n) == n + 1

-----------------------------------------------------------------------------
\* _EventLoopThread.__init__, and no sync Browser launched yet.
InitBridge ==
    /\ bridge_loop = 0
    /\ bridge_thread = 0
    /\ loops = 0
    /\ workers = [t \in 1..MaxStarts |-> "unborn"]
    /\ start_calls = 0
    /\ last_start = 0
    /\ stop_pc = "idle"
    /\ stops = 0
    /\ run_pc = "idle"
    /\ op = "none"
    /\ run_out = "none"
    /\ browser_pc = "none"

-----------------------------------------------------------------------------
\* A Page (async_api/page.py) and the events it is handed.

\* The members of a list.
Range(hs) == {hs[i] : i \in 1..Len(hs)}

\* The callback lists of a Page, by the event name remove_all_listeners
\* gives them.
Kinds == {"request", "response", "dialog", "console", "error", "download",
          "navigation", "websocket"}

\* The callbacks a user registers, named by what their body does when
\* invoked: return, or raise an Exception.
UserCallbacks == {"plain", "raises"}

\* The capture waiters; each names the handler closure it registers.
Waiters == {"w1", "w2"}

\* URLs and URL patterns are strings, written as sequences of characters.
AnyUrl == <<"*", "*">>

Patterns == {AnyUrl, <<"a">>, <<"a", "*">>}

Urls == {<<"a">>, <<"b">>, <<"b", "a">>}

\* fnmatch.fnmatch(url, pattern) for patterns made of letters and "*".
RECURSIVE FnMatch(_, _)
FnMatch(url, pattern) ==
    IF pattern = << >> THEN url = << >>
    ELSE IF Head(pattern) = "*"
         THEN \/ FnMatch(url, Tail(pattern))
              \/ url # << >> /\ FnMatch(Tail(url), pattern)
         ELSE /\ url # << >>
              /\ Head(url) = Head(pattern)
              /\ FnMatch(Tail(url), Tail(pattern))

\* pattern in url
Contains(url, pattern) ==
    \E i \in 0..(Len(url) - Len(pattern)) :
        SubSeq(url, i + 1, i + Len(pattern)) = pattern

\* _match_pattern
MatchPattern(pattern, url) ==
    IF pattern = AnyUrl THEN TRUE
    ELSE IF "*" \in Range(pattern) THEN FnMatch(url, pattern)
    ELSE Contains(url, pattern)

\* The future of a capture waiter: not created, pending, holding the event
\* (named by its URL) or cancelled.
NoCapture == [state |-> "none", url |-> << >>]

PendingCapture == [state |-> "pending", url |-> << >>]

CancelledCapture == [state |-> "cancelled", url |-> << >>]

\* future.set_result(event)
Captured(url) == [state |-> "result", url |-> url]

\* What a Page did with the last event: the callbacks of the event's kind
\* before it, those it invoked, and the dismiss commands it issued itself.
NoEvent ==
    [kind |-> "none", url |-> << >>, before |-> << >>, invoked |-> << >>,
     dismissed |-> 0]

\* What a Page did with the last blocked request: the routes whose pattern
\* matched its URL and those whose handler was invoked (by their place in
\* the list), and the commands issued for the request.
NoRequest ==
    [blocked |-> FALSE, matching |-> {}, invoked |-> << >>, issued |-> << >>]

\* What a Browser did with the last contextCreated event.
NoContext ==
    [context |-> "none", opener |-> FALSE, seen |-> FALSE,
     before |-> << >>, invoked |-> << >>]

\* The pipe is empty.
InitTransport ==
    /\ stdout = << >>
    /\ lines_written = 0
    /\ last_read = 0

\* The loop thread is not inside "for cb in callbacks".
NotDispatching == [list |-> "none", i |-> 0]

\* No sync handler has run yet.
InitSync ==
    /\ scheduled = {}
    /\ loop_thread = "free"
    /\ dispatching = NotDispatching
    /\ last_mutation = [list |-> "none", dispatching |-> FALSE]

\* Page.__init__ and Browser.__init__.
InitPage ==
    /\ callbacks = [k \in Kinds |-> << >>]
    /\ data_collector_id = "none"
    /\ setup_tasks = 0
    /\ collectors = 0
    /\ removals = 0
    /\ waiter_pc = [w \in Waiters |-> "idle"]
    /\ waiter_fut = [w \in Waiters |-> NoCapture]
    /\ waiter_kind = [w \in Waiters |-> "none"]
    /\ waiter_pattern = [w \in Waiters |-> AnyUrl]
    /\ waiter_elapsed = [w \in Waiters |-> FALSE]
    /\ last_event = NoEvent
    /\ routes = << >>
    /\ intercept_id = "none"
    /\ route_pc = "idle"
    /\ unroute_pc = "idle"
    /\ intercepts = 0
    /\ other_route_pc = "idle"
    /\ last_request = NoRequest
    /\ page_callbacks = << >>
    /\ popup_callbacks = << >>
    /\ seen_context_ids = {}
    /\ last_context = NoContext

Init ==
    /\ next_id = FirstId
    /\ pending = << >>
    /\ fut = [c \in Callers |-> NoFuture]
    /\ pc = [c \in Callers |-> "idle"]
    /\ msg_id = [c \in Callers |-> 0]
    /\ outcome = [c \in Callers |-> NoOutcome]
    /\ elapsed = [c \in Callers |-> FALSE]
    /\ receiver_task = "running"
    /\ stdin = "open"
    /\ close_pc = "idle"
    /\ event_handlers = << >>
    /\ last_effect = "none"
    /\ last_dispatch = [before |-> << >>, invoked |-> << >>]
    /\ close_calls = 0
    /\ pre_ready_lines = << >>
    /\ replayed = << >>
    /\ InitBridge
    /\ InitPage
    /\ InitTransport
    /\ InitSync

-----------------------------------------------------------------------------
\* send, lines 98-113: take the id, store the future, write the command.
\* The call then waits in drain().
Send(c) ==
    /\ pc[c] = "idle"
    /\ \A d \in Callers : d < c => pc[d] # "idle"
    /\ msg_id' = [msg_id EXCEPT ![c] = next_id]
    /\ next_id' = NextIdAfter(next_id)
    /\ fut' = [fut EXCEPT ![c] = PendingFuture]
    /\ pending' = Store(pending, next_id, c)
    /\ pc' = [pc EXCEPT ![c] = "drain"]
    /\ UNCHANGED <<outcome, elapsed, receiver_task, stdin, close_pc,
                   event_handlers, last_effect, last_dispatch, otherVars>>

\* A send whose finally clause empties the correlation table.
Finish_ClearsTable(c, o) ==
    /\ outcome' = [outcome EXCEPT ![c] = o]
    /\ pending' = << >>
    /\ pc' = [pc EXCEPT ![c] = "done"]
    /\ fut' = [fut EXCEPT ![c] = NoFuture]
    /\ elapsed' = [elapsed EXCEPT ![c] = FALSE]

\* The finally clause of send, after the call returned or raised o.
\* The call's future and timer are gone with it.
Finish(c, o) ==
    /\ outcome' = [outcome EXCEPT ![c] = o]
    /\ pending' = Pop(pending, msg_id[c])
    /\ pc' = [pc EXCEPT ![c] = "done"]
    /\ fut' = [fut EXCEPT ![c] = NoFuture]
    /\ elapsed' = [elapsed EXCEPT ![c] = FALSE]

\* drain() returns: send goes on to wait_for.
DrainReturns(c) ==
    /\ pc[c] = "drain"
    /\ stdin # "lost"
    /\ pc' = [pc EXCEPT ![c] = "wait"]
    /\ UNCHANGED <<next_id, pending, fut, msg_id, outcome, elapsed,
                   receiver_task, stdin, close_pc, event_handlers, last_effect,
                   last_dispatch, otherVars>>

\* drain() raises ConnectionResetError('Connection lost').
DrainRaises(c) ==
    /\ pc[c] = "drain"
    /\ stdin = "lost"
    /\ Finish(c, Raised("ConnectionResetError"))
    /\ UNCHANGED <<next_id, msg_id, receiver_task, stdin,
                   close_pc, event_handlers, last_effect, last_dispatch,
                   otherVars>>

\* The deadline of wait_for passes.
Deadline(c) ==
    /\ pc[c] = "wait"
    /\ ~elapsed[c]
    /\ elapsed' = [elapsed EXCEPT ![c] = TRUE]
    /\ UNCHANGED <<next_id, pending, fut, pc, msg_id, outcome, receiver_task,
                   stdin, close_pc, event_handlers, last_effect, last_dispatch,
                   otherVars>>

\* A wait_for in which the deadline wins over a future that is done.
TimesOut_DeadlineWins(c) == elapsed[c]

\* Whether wait_for, woken after the deadline, takes its timeout branch.
TimesOut(c) == elapsed[c] /\ ~Done(fut[c])

\* wait_for, woken by the deadline with the future not done: it cancels the
\* future and waits for the cancellation.
Timeout(c) ==
    /\ pc[c] = "wait"
    /\ TimesOut(c)
    /\ fut' = [fut EXCEPT ![c] = CancelledFuture]
    /\ pc' = [pc EXCEPT ![c] = "timed_out"]
    /\ UNCHANGED <<next_id, pending, msg_id, outcome, elapsed, receiver_task,
                   stdin, close_pc, event_handlers, last_effect, last_dispatch,
                   otherVars>>

\* wait_for raises asyncio.TimeoutError; send raises TimeoutError.
TimeoutRaises(c) ==
    /\ pc[c] = "timed_out"
    /\ Finish(c, Raised("TimeoutError"))
    /\ UNCHANGED <<next_id, msg_id, receiver_task, stdin,
                   close_pc, event_handlers, last_effect, last_dispatch,
                   otherVars>>

\* wait_for, woken with the future done (whether or not the deadline has
\* passed): send gets fut.result().
Resume(c) ==
    /\ pc[c] = "wait"
    /\ fut[c].state \in {"result", "exception"}
    /\ Finish(c, OutcomeOf(fut[c]))
    /\ UNCHANGED <<next_id, msg_id, receiver_task, stdin,
                   close_pc, event_handlers, last_effect, last_dispatch,
                   otherVars>>

\* The task running send is cancelled by its owner while send waits.  In
\* drain(), or while wait_for waits for the future it cancelled, the
\* CancelledError leaves send at once.  In wait_for with the future pending,
\* the future is cancelled first; with the future done, wait_for returns
\* fut.result() and the cancellation is lost (Resume).
CancelCaller(c) ==
    \/ /\ pc[c] \in {"drain", "timed_out"}
       /\ Finish(c, Raised("CancelledError"))
       /\ UNCHANGED <<next_id, msg_id, receiver_task, stdin,
                      close_pc, event_handlers, last_effect, last_dispatch,
                      otherVars>>
    \/ /\ pc[c] = "wait"
       /\ ~Done(fut[c])
       /\ fut' = [fut EXCEPT ![c] = CancelledFuture]
       /\ pc' = [pc EXCEPT ![c] = "cancelled"]
       /\ UNCHANGED <<next_id, pending, msg_id, outcome, elapsed,
                      receiver_task, stdin, close_pc, event_handlers,
                      last_effect, last_dispatch, otherVars>>

\* wait_for re-raises the CancelledError.
CancelRaises(c) ==
    /\ pc[c] = "cancelled"
    /\ Finish(c, Raised("CancelledError"))
    /\ UNCHANGED <<next_id, msg_id, receiver_task, stdin,
                   close_pc, event_handlers, last_effect, last_dispatch,
                   otherVars>>

-----------------------------------------------------------------------------
\* A dispatch that hands the response to the oldest pending call, whatever
\* id the line carries.
DispatchResponse_Oldest(line) ==
    IF \E i \in DOMAIN pending : ~Done(fut[pending[i]])
    THEN LET i == CHOOSE i \in DOMAIN pending :
                      /\ ~Done(fut[pending[i]])
                      /\ \A j \in DOMAIN pending :
                            ~Done(fut[pending[j]]) => i <= j
         IN  [fut EXCEPT ![pending[i]] = SetResult(line)]
    ELSE fut

\* A dispatch without the future.done() test.
DispatchResponse_NoDoneCheck(line) ==
    IF line.id \in DOMAIN pending
    THEN [fut EXCEPT ![pending[line.id]] = SetResult(line)]
    ELSE fut

\* _dispatch_message, lines 55-59: a line with an id that is in _pending
\* resolves that entry's future unless the future is done.
DispatchResponse(line) ==
    IF line.id \in DOMAIN pending /\ ~Done(fut[pending[line.id]])
    THEN [fut EXCEPT ![pending[line.id]] = SetResult(line)]
    ELSE fut

\* A removal that takes the last occurrence of h.
RemoveFirst_Last(hs, h) ==
    IF \E i \in 1..Len(hs) : hs[i] = h
    THEN LET k == CHOOSE i \in 1..Len(hs) :
                      hs[i] = h /\ \A j \in (i + 1)..Len(hs) : hs[j] # h
         IN  SubSeq(hs, 1, k - 1) \o SubSeq(hs, k + 1, Len(hs))
    ELSE hs

\* list.remove(h): the list without the first occurrence of h.
RemoveFirst(hs, h) ==
    IF \E i \in 1..Len(hs) : hs[i] = h
    THEN LET k == CHOOSE i \in 1..Len(hs) :
                      hs[i] = h /\ \A j \in 1..(i - 1) : hs[j] # h
         IN  SubSeq(hs, 1, k - 1) \o SubSeq(hs, k + 1, Len(hs))
    ELSE hs

\* What the body of handler h does to the handler list.
HandlerBody(hs, h) == IF h = "once" THEN RemoveFirst(hs, h) ELSE hs

\* _dispatch_message, lines 61-65: "for handler in self._event_handlers"
\* walks the list itself by index, from position i on; an Exception a
\* handler raises is caught.
RECURSIVE ForEachHandler(_, _, _)
ForEachHandler(hs, i, log) ==
    IF i > Len(hs)
    THEN [handlers |-> hs, invoked |-> log]
    ELSE ForEachHandler(HandlerBody(hs, hs[i]), i + 1, Append(log, hs[i]))

\* A receive loop without its finally clause.
FailPending_Missing == fut

\* The finally clause of _receive_loop, lines 91-94.
FailPending ==
    [c \in Callers |->
        IF (\E i \in DOMAIN pending : pending[i] = c) /\ ~Done(fut[c])
        THEN ConnectionClosed
        ELSE fut[c]]

\* _receive_loop leaves its while loop: how is "eof" (break), "oserror" or
\* "cancelled" (caught) or "crashed" (an exception that is not caught).
LoopExit(how) ==
    /\ receiver_task' = how
    /\ fut' = FailPending

\* Whether _dispatch_message finds a future to resolve for a response line.
Resolves(line) == line.id \in DOMAIN pending /\ ~Done(fut[pending[line.id]])

\* A StreamReader that hands out the line written last.
ReadLine_Newest(buffer) ==
    [line |-> buffer[Len(buffer)],
     rest |-> SubSeq(buffer, 1, Len(buffer) - 1)]

\* readline(), line 82: the oldest line in the buffer of the StreamReader,
\* and the buffer without it.
ReadLine(buffer) == [line |-> Head(buffer), rest |-> Tail(buffer)]

\* The binary writes a line to its stdout while the receive loop is busy or
\* waiting; the lines are numbered in the order they are written.
Write(line) ==
    /\ lines_written < MaxWritten
    /\ lines_written' = lines_written + 1
    /\ stdout' = Append(stdout, [line |-> line, n |-> lines_written + 1])
    /\ UNCHANGED <<last_read, sendVars, receiver_task, stdin, close_pc,
                   event_handlers, last_effect, last_dispatch, close_calls,
                   startVars, bridgeVars, pageVars, syncVars>>

\* _receive_loop reads one line and dispatches it in the same step (there
\* is no await between readline and _dispatch_message).  With nothing
\* written ahead, the line is one the binary writes at this moment.
Receive(line) ==
    /\ receiver_task = "running"
    /\ IF stdout = << >>
       THEN UNCHANGED transportVars
       ELSE /\ line = ReadLine(stdout).line.line
            /\ stdout' = ReadLine(stdout).rest
            /\ last_read' = ReadLine(stdout).line.n
            /\ UNCHANGED lines_written
    /\ \/ /\ HasId(line) /\ Hashable(line)
          /\ fut' = DispatchResponse(line)
          /\ last_effect' = IF Resolves(line) THEN "resolved" ELSE "ignored"
          /\ UNCHANGED <<receiver_task, event_handlers, last_dispatch>>
       \/ /\ ~HasId(line) /\ HasMethod(line)
          /\ LET r == ForEachHandler(event_handlers, 1, << >>)
             IN  /\ event_handlers' = r.handlers
                 /\ last_dispatch' = [before |-> event_handlers,
                                      invoked |-> r.invoked]
          /\ last_effect' = "event"
          /\ UNCHANGED <<receiver_task, fut>>
       \/ /\ line.kind \in {"nonjson", "other"}
          /\ last_effect' = "dropped"
          /\ UNCHANGED <<receiver_task, fut, event_handlers, last_dispatch>>
       \/ /\ \/ line.kind \in {"nonobject", "undecodable"}
             \/ HasId(line) /\ ~Hashable(line)
          /\ LoopExit("crashed")
          /\ last_effect' = "raised"
          /\ UNCHANGED <<event_handlers, last_dispatch>>
    /\ UNCHANGED <<next_id, pending, pc, msg_id, outcome, elapsed, stdin,
                   close_pc, close_calls, startVars, bridgeVars, pageVars,
                   syncVars>>

\* readline() returns b"": the process exited and every line it wrote has
\* been read.
Eof ==
    /\ receiver_task = "running"
    /\ stdout = << >>
    /\ LoopExit("eof")
    /\ UNCHANGED <<next_id, pending, pc, msg_id, outcome, elapsed, stdin,
                   close_pc, event_handlers, last_effect, last_dispatch,
                   otherVars>>

\* readline() raises OSError.
ReadError ==
    /\ receiver_task = "running"
    /\ LoopExit("oserror")
    /\ UNCHANGED <<next_id, pending, pc, msg_id, outcome, elapsed, stdin,
                   close_pc, event_handlers, last_effect, last_dispatch,
                   otherVars>>

\* The CancelledError that close() requested reaches readline().
ReceiverCancelled ==
    /\ receiver_task = "cancel_requested"
    /\ LoopExit("cancelled")
    /\ UNCHANGED <<next_id, pending, pc, msg_id, outcome, elapsed, stdin,
                   close_pc, event_handlers, last_effect, last_dispatch,
                   otherVars>>

\* A close() that closes the pipe without asking is_closing().
CloseStdin_NoCheck == "closing"

\* close(), lines 139-140.
CloseStdin == IF stdin = "open" THEN "closing" ELSE stdin

\* close(), lines 131-134: cancel the receiver task and await it.  A task
\* that is already done is awaited without suspending; if it ended with an
\* exception, the await raises it.
CloseCalled ==
    /\ close_pc \in {"idle", "done", "raised"}
    /\ close_calls < MaxCloses
    /\ close_calls' = close_calls + 1
    /\ \/ /\ receiver_task = "running"
          /\ receiver_task' = "cancel_requested"
          /\ close_pc' = "awaiting"
          /\ UNCHANGED stdin
       \/ /\ receiver_task \in {"eof", "oserror", "cancelled"}
          /\ close_pc' = "done"
          /\ stdin' = CloseStdin
          /\ UNCHANGED receiver_task
       \/ /\ receiver_task = "crashed"
          /\ close_pc' = "raised"
          /\ UNCHANGED <<receiver_task, stdin>>
    /\ UNCHANGED <<sendVars, event_handlers, last_effect, last_dispatch,
                   startVars, bridgeVars, pageVars,
                   transportVars, syncVars>>

\* close() resumes after the receiver task ended.
CloseResumes ==
    /\ close_pc = "awaiting"
    /\ receiver_task = "cancelled"
    /\ close_pc' = "done"
    /\ stdin' = CloseStdin
    /\ UNCHANGED <<sendVars, receiver_task, event_handlers, last_effect,
                   last_dispatch, otherVars>>

\* The pipe to the process is lost: the process exited, or the transport
\* finished closing.
StdinLost ==
    /\ stdin \in {"open", "closing"}
    /\ stdin' = "lost"
    /\ UNCHANGED <<sendVars, receiver_task, close_pc, event_handlers,
                   last_effect, last_dispatch, otherVars>>

\* on_event, lines 67-69.
OnEvent(h) ==
    /\ Len(event_handlers) < MaxHandlers
    /\ event_handlers' = Append(event_handlers, h)
    /\ UNCHANGED <<sendVars, receiver_task, stdin, close_pc, last_effect,
                   last_dispatch, otherVars>>

\* remove_event_handler, lines 71-76.
RemoveEventHandler(h) ==
    /\ event_handlers' = RemoveFirst(event_handlers, h)
    /\ UNCHANGED <<sendVars, receiver_task, stdin, close_pc, last_effect,
                   last_dispatch, otherVars>>

-----------------------------------------------------------------------------
\* Starting the process and connecting the client to it.

\* A second kind of event.
OtherEvent == Event("a.b")

\* The lines the process can write before it signals that it is ready.
BufferedLines == {Event("x.y"), OtherEvent, NonJson}

\* The process has been started and the client not yet created.
InitStart ==
    /\ next_id = FirstId
    /\ pending = << >>
    /\ fut = [c \in Callers |-> NoFuture]
    /\ pc = [c \in Callers |-> "idle"]
    /\ msg_id = [c \in Callers |-> 0]
    /\ outcome = [c \in Callers |-> NoOutcome]
    /\ elapsed = [c \in Callers |-> FALSE]
    /\ receiver_task = "none"
    /\ stdin = "open"
    /\ close_pc = "idle"
    /\ event_handlers = << >>
    /\ last_effect = "none"
    /\ last_dispatch = [before |-> << >>, invoked |-> << >>]
    /\ close_calls = 0
    /\ pre_ready_lines = << >>
    /\ replayed = << >>
    /\ InitBridge
    /\ InitPage
    /\ InitTransport
    /\ InitSync

\* A line read before the ready signal is kept in _pre_ready_lines.
Buffer(line) ==
    /\ receiver_task = "none"
    /\ Len(pre_ready_lines) < MaxBuffered
    /\ pre_ready_lines' = Append(pre_ready_lines, line)
    /\ UNCHANGED <<sendVars, receiver_task, stdin, close_pc, event_handlers,
                   last_effect, last_dispatch, close_calls, replayed,
                   bridgeVars, pageVars,
                   transportVars, syncVars>>

\* What _dispatch_message does with a replayed line: the handlers it
\* invokes for an event, none for any other line.
Replay(hs, line) ==
    [line |-> line,
     invoked |-> IF line.kind = "event"
                 THEN ForEachHandler(hs, 1, << >>).invoked
                 ELSE << >>]

\* connect, lines 37-47: the client is constructed (with its empty handler
\* list), the receiver task is created, and every buffered line is
\* dispatched before connect returns the client; the buffer is deleted.
Connect ==
    /\ receiver_task = "none"
    /\ receiver_task' = "running"
    /\ event_handlers' = << >>
    /\ replayed' = [i \in 1..Len(pre_ready_lines) |->
                       Replay(event_handlers', pre_ready_lines[i])]
    /\ pre_ready_lines' = << >>
    /\ UNCHANGED <<sendVars, stdin, close_pc, last_effect, last_dispatch,
                   close_calls, bridgeVars, pageVars,
                   transportVars, syncVars>>

\* Whether connect has returned the client.
Connected == receiver_task # "none"

\* The owner of the client (Browser, Page) registers its handler on it.
Attach(h) == Connected /\ OnEvent(h)

-----------------------------------------------------------------------------
\* The sync bridge, _sync_base.py: one calling thread, and the worker
\* threads that run the event loops.  Worker thread n runs event loop n.

\* The calling thread is not inside a call of the bridge.
CallerFree == stop_pc = "idle" /\ run_pc = "idle"

\* A start() that does not look at self._loop.
NoLoopYet_Always == TRUE

\* start(), line 19: "if self._loop is not None: return self._loop".
NoLoopYet == bridge_loop = 0

\* start(), lines 17-25.
Start ==
    /\ start_calls' = start_calls + 1
    /\ IF NoLoopYet
       THEN /\ loops' = loops + 1
            /\ bridge_loop' = loops + 1
            /\ bridge_thread' = loops + 1
            /\ workers' = [workers EXCEPT ![loops + 1] = "running"]
            /\ last_start' = loops + 1
       ELSE /\ last_start' = bridge_loop
            /\ UNCHANGED <<bridge_loop, bridge_thread, loops, workers>>

\* start() called on the bridge.
StartCalled ==
    /\ CallerFree
    /\ start_calls < MaxStarts
    /\ Start
    /\ UNCHANGED <<stop_pc, stops, run_pc, op, run_out, browser_pc,
                   clientVars>>

\* stop(), lines 64-67: ask the loop to stop, then join the thread if there
\* is one; without a thread stop() returns at once.
Stop ==
    /\ workers' = IF bridge_loop # 0 /\ workers[bridge_loop] = "running"
                  THEN [workers EXCEPT ![bridge_loop] = "stopping"]
                  ELSE workers
    /\ IF bridge_thread # 0
       THEN /\ stop_pc' = "joining"
            /\ UNCHANGED <<bridge_loop, bridge_thread, stops>>
       ELSE /\ stop_pc' = "idle"
            /\ bridge_loop' = 0
            /\ bridge_thread' = 0
            /\ stops' = stops + 1

\* stop() called on the bridge.
StopCalled ==
    /\ CallerFree
    /\ stops < MaxStops
    /\ Stop
    /\ UNCHANGED <<loops, start_calls, last_start, run_pc, op, run_out,
                   browser_pc, clientVars>>

\* stop(), lines 68-69, after join() came back; a sync Browser.close()
\* that called stop() returns with it.
StopReturns ==
    /\ bridge_loop' = 0
    /\ bridge_thread' = 0
    /\ stop_pc' = "idle"
    /\ stops' = stops + 1
    /\ browser_pc' = IF browser_pc = "stopping" THEN "closed" ELSE browser_pc
    /\ UNCHANGED <<loops, workers, start_calls, last_start, run_pc, op,
                   run_out, clientVars>>

\* join(timeout=5) returns because the worker thread ended.
JoinReturns ==
    /\ stop_pc = "joining"
    /\ workers[bridge_thread] = "exited"
    /\ StopReturns

\* join(timeout=5) returns after 5 seconds: the worker thread has not ended.
JoinTimesOut ==
    /\ stop_pc = "joining"
    /\ workers[bridge_thread] = "stuck"
    /\ StopReturns

\* The loop runs the stop it was asked for: run_forever() returns and the
\* worker thread ends.
WorkerExits(t) ==
    /\ workers[t] = "stopping"
    /\ workers' = [workers EXCEPT ![t] = "exited"]
    /\ UNCHANGED <<bridge_loop, bridge_thread, loops, start_calls, last_start,
                   stop_pc, stops, run_pc, op, run_out, browser_pc,
                   clientVars>>

\* A callback blocks the loop: the worker thread runs nothing else from
\* now on.
WorkerSticks(t) ==
    /\ workers[t] \in {"running", "stopping"}
    /\ workers' = [workers EXCEPT ![t] = "stuck"]
    /\ UNCHANGED <<bridge_loop, bridge_thread, loops, start_calls, last_start,
                   stop_pc, stops, run_pc, op, run_out, browser_pc,
                   clientVars>>

\* What an operation can complete with: its value, an error of its own, or
\* a TimeoutError of its own (as send raises).
Completions == {"value", "OpError", "OpTimeoutError"}

\* run(), lines 42-44: without a loop run raises RuntimeError; otherwise it
\* submits the operation and waits in future.result(timeout).
Run ==
    IF bridge_loop = 0
    THEN /\ run_out' = "RuntimeError"
         /\ UNCHANGED <<run_pc, op>>
    ELSE /\ op' = "pending"
         /\ run_pc' = "waiting"
         /\ run_out' = "none"

\* run() called on the bridge.
RunCalled ==
    /\ CallerFree
    /\ Run
    /\ UNCHANGED <<bridge_loop, bridge_thread, loops, workers, start_calls,
                   last_start, stop_pc, stops, browser_pc, clientVars>>

\* The loop completes the operation.
OpCompletes(r) ==
    /\ op = "pending"
    /\ workers[bridge_thread] = "running"
    /\ op' = r
    /\ UNCHANGED <<bridge_loop, bridge_thread, loops, workers, start_calls,
                   last_start, stop_pc, stops, run_pc, run_out, browser_pc,
                   clientVars>>

\* future.result(timeout) finds the future done: run returns the value
\* (line 45); an exception of the operation goes through the except clause,
\* where future.done() holds, and is raised again (lines 53-54).
WaitReturns ==
    /\ run_pc = "waiting"
    /\ op \in Completions
    /\ run_out' = op
    /\ run_pc' = "idle"
    /\ UNCHANGED <<bridge_loop, bridge_thread, loops, workers, start_calls,
                   last_start, stop_pc, stops, op, browser_pc, clientVars>>

\* future.result(timeout) raises TimeoutError: the future was not done when
\* the timeout elapsed.  run enters its except clause.
WaitTimesOut ==
    /\ run_pc = "waiting"
    /\ op = "pending"
    /\ run_pc' = "except"
    /\ UNCHANGED <<bridge_loop, bridge_thread, loops, workers, start_calls,
                   last_start, stop_pc, stops, op, run_out, browser_pc,
                   clientVars>>

\* run(), line 54: the bare "raise" raises the exception being handled,
\* which is the TimeoutError of future.result, whatever the future holds.
Reraised(o) == "WaitTimeoutError"

\* run(), lines 53-60, in the except clause after the wait timed out: if
\* the future is done by now, raise; otherwise cancel it and raise the
\* bridge's TimeoutError.
ExceptClause ==
    /\ run_pc = "except"
    /\ IF op \in Completions
       THEN /\ run_out' = Reraised(op)
            /\ UNCHANGED op
       ELSE /\ op' = "cancelled"
            /\ run_out' = "BridgeTimeoutError"
    /\ run_pc' = "idle"
    /\ UNCHANGED <<bridge_loop, bridge_thread, loops, workers, start_calls,
                   last_start, stop_pc, stops, browser_pc, clientVars>>

-----------------------------------------------------------------------------
\* The sync Browser, sync_api/browser.py.

\* _BrowserLauncher.launch, lines 78-89: create the bridge, start it and run
\* the async launch on it.
Launch ==
    /\ browser_pc = "none"
    /\ CallerFree
    /\ start_calls < MaxStarts
    /\ Start
    /\ op' = "pending"
    /\ run_pc' = "waiting"
    /\ run_out' = "none"
    /\ browser_pc' = "launching"
    /\ UNCHANGED <<stop_pc, stops, clientVars>>

\* launch, lines 83-90: run() returned the async browser, or raised and
\* launch raises with it.
LaunchReturns ==
    /\ browser_pc = "launching"
    /\ run_pc = "idle"
    /\ browser_pc' = IF run_out = "value" THEN "open" ELSE "launch_raised"
    /\ UNCHANGED <<bridge_loop, bridge_thread, loops, workers, start_calls,
                   last_start, stop_pc, stops, run_pc, op, run_out,
                   clientVars>>

\* A method of the Browser or of its pages: self._loop.run(...).
Call ==
    /\ browser_pc = "open"
    /\ RunCalled

\* Browser.close, line 63: self._loop.run(self._async.close()).
BrowserClose ==
    /\ browser_pc = "open"
    /\ CallerFree
    /\ Run
    /\ browser_pc' = "closing"
    /\ UNCHANGED <<bridge_loop, bridge_thread, loops, workers, start_calls,
                   last_start, stop_pc, stops, clientVars>>

\* Browser.close, lines 63-64: when run() returned, self._loop.stop() is
\* called; when run() raised, close raises with it.
BrowserCloseGoesOn ==
    /\ browser_pc = "closing"
    /\ run_pc = "idle"
    /\ IF run_out = "value"
       THEN /\ Stop
            /\ browser_pc' = IF bridge_thread # 0 THEN "stopping" ELSE "closed"
       ELSE /\ browser_pc' = "close_raised"
            /\ UNCHANGED <<bridge_loop, bridge_thread, workers, stop_pc, stops>>
    /\ UNCHANGED <<loops, start_calls, last_start, run_pc, op, run_out,
                   clientVars>>

-----------------------------------------------------------------------------
\* The callback lists of a Page: on_<kind>, the capture waiters, the events
\* and remove_all_listeners.  Collect mode of on_console and on_error is not
\* used, so the two buffers stay None and are left out.

\* How many callbacks are registered on the lists of the Page.
Registered ==
    Len(callbacks["request"]) + Len(callbacks["response"])
    + Len(callbacks["dialog"]) + Len(callbacks["console"])
    + Len(callbacks["error"]) + Len(callbacks["download"])
    + Len(callbacks["navigation"]) + Len(callbacks["websocket"])

\* The lists that have an on_<kind> method.
OnKinds == Kinds \ {"navigation"}

\* The lists a capture waiter can be put on: the five _capture_<kind>
\* methods and the names _get_callback_list knows.
CaptureKinds == Kinds \ {"websocket"}

\* _ensure_data_collector: the collector is asked for once; its id is
\* "pending" until the command returns.
EnsureDataCollector(kind) ==
    IF kind \in {"request", "response"} /\ data_collector_id = "none"
    THEN "pending"
    ELSE data_collector_id

\* Whether _ensure_data_collector, called for the list of `kind`, starts a
\* _setup task: no id and no "pending" is recorded.
StartsSetup(kind) ==
    kind \in {"request", "response"} /\ data_collector_id = "none"

\* The _setup task _ensure_data_collector hands to ensure_future.
SetupTask(kind) ==
    /\ StartsSetup(kind) => setup_tasks + collectors < MaxCollectors
    /\ setup_tasks' = IF StartsSetup(kind) THEN setup_tasks + 1
                      ELSE setup_tasks
    /\ UNCHANGED <<collectors, removals>>

\* A _setup task of _ensure_data_collector ends, whatever the id recorded by
\* now: the id of the collector the server created is stored, or None if the
\* command failed.
CollectorSetup(ok) ==
    /\ setup_tasks > 0
    /\ setup_tasks' = setup_tasks - 1
    /\ data_collector_id' = IF ok THEN "set" ELSE "none"
    /\ collectors' = IF ok THEN collectors + 1 ELSE collectors
    /\ UNCHANGED <<removals, callbacks, waiter_pc, waiter_fut, waiter_kind,
                   waiter_pattern, waiter_elapsed, last_event, routeVars,
                   contextVars, connVars, bridgeVars>>

\* on_request, on_response, on_dialog, on_console, on_error, on_download,
\* on_web_socket.
On(kind, cb) ==
    /\ kind \in OnKinds
    /\ Registered < MaxCallbacks
    /\ callbacks' = [callbacks EXCEPT ![kind] = Append(@, cb)]
    /\ data_collector_id' = EnsureDataCollector(kind)
    /\ SetupTask(kind)
    /\ UNCHANGED <<waiter_pc, waiter_fut, waiter_kind, waiter_pattern,
                   waiter_elapsed, last_event, routeVars, contextVars,
                   connVars, bridgeVars>>

\* _capture_<kind> and _setup_capture_<kind>: create the future and append
\* the handler.  _capture_<kind> goes on to wait_for in the same step; the
\* coroutine _setup_capture_<kind> returns is awaited later.  The waiters of
\* request and response take a pattern; the others take every event.
Capture(w, kind, pattern, setup) ==
    /\ waiter_pc[w] = "idle"
    /\ kind \in CaptureKinds
    /\ kind \notin {"request", "response"} => pattern = AnyUrl
    /\ Registered < MaxCallbacks
    /\ waiter_fut' = [waiter_fut EXCEPT ![w] = PendingCapture]
    /\ waiter_kind' = [waiter_kind EXCEPT ![w] = kind]
    /\ waiter_pattern' = [waiter_pattern EXCEPT ![w] = pattern]
    /\ callbacks' = [callbacks EXCEPT ![kind] = Append(@, w)]
    /\ data_collector_id' = EnsureDataCollector(kind)
    /\ SetupTask(kind)
    /\ waiter_pc' = [waiter_pc EXCEPT
                        ![w] = IF setup THEN "registered" ELSE "waiting"]
    /\ UNCHANGED <<waiter_elapsed, last_event, routeVars, contextVars,
                   connVars, bridgeVars>>

\* The coroutine _wait() of _setup_capture_<kind> is awaited.
Await(w) ==
    /\ waiter_pc[w] = "registered"
    /\ waiter_pc' = [waiter_pc EXCEPT ![w] = "waiting"]
    /\ UNCHANGED <<callbacks, collectorVars, waiter_fut, waiter_kind,
                   waiter_pattern, waiter_elapsed, last_event, routeVars,
                   contextVars, connVars, bridgeVars>>

\* __aexit__ and __exit__ of a capture context manager whose body raised:
\* exc_type is not None, the coroutine _wait() is not awaited and nothing
\* else is done.
ExitRaised(w) ==
    /\ waiter_pc[w] = "registered"
    /\ waiter_pc' = [waiter_pc EXCEPT ![w] = "exited"]
    /\ UNCHANGED <<callbacks, collectorVars, waiter_fut, waiter_kind,
                   waiter_pattern, waiter_elapsed, last_event, routeVars,
                   contextVars, connVars, bridgeVars>>

\* The deadline of the waiter's wait_for passes.
WaiterDeadline(w) ==
    /\ waiter_pc[w] = "waiting"
    /\ ~waiter_elapsed[w]
    /\ waiter_elapsed' = [waiter_elapsed EXCEPT ![w] = TRUE]
    /\ UNCHANGED <<callbacks, collectorVars, waiter_pc, waiter_fut,
                   waiter_kind, waiter_pattern, last_event, routeVars,
                   contextVars, connVars, bridgeVars>>

\* wait_for finds the future done: the waiter returns the event.
WaiterReturns(w) ==
    /\ waiter_pc[w] = "waiting"
    /\ waiter_fut[w].state = "result"
    /\ waiter_pc' = [waiter_pc EXCEPT ![w] = "returned"]
    /\ UNCHANGED <<callbacks, collectorVars, waiter_fut, waiter_kind,
                   waiter_pattern, waiter_elapsed, last_event, routeVars,
                   contextVars, connVars, bridgeVars>>

\* wait_for, woken by the deadline with the future pending: it cancels the
\* future and waits for the cancellation.
WaiterTimeout(w) ==
    /\ waiter_pc[w] = "waiting"
    /\ waiter_elapsed[w]
    /\ waiter_fut[w].state = "pending"
    /\ waiter_fut' = [waiter_fut EXCEPT ![w] = CancelledCapture]
    /\ waiter_pc' = [waiter_pc EXCEPT ![w] = "timed_out"]
    /\ UNCHANGED <<callbacks, collectorVars, waiter_kind, waiter_pattern,
                   waiter_elapsed, last_event, routeVars, contextVars,
                   connVars, bridgeVars>>

\* The except clause of the waiter: take the handler off its list if it is
\* there, and raise TimeoutError.
WaiterRaises(w) ==
    /\ waiter_pc[w] = "timed_out"
    /\ callbacks' = [callbacks EXCEPT ![waiter_kind[w]] = RemoveFirst(@, w)]
    /\ waiter_pc' = [waiter_pc EXCEPT ![w] = "raised"]
    /\ UNCHANGED <<collectorVars, waiter_fut, waiter_kind, waiter_pattern,
                   waiter_elapsed, last_event, routeVars, contextVars,
                   connVars, bridgeVars>>

\* What the body of callback cb does to the list it is on when it is invoked
\* with an event of the given URL: the handler of a capture waiter whose
\* pattern matches takes itself off the list.
CallbackBody(cbs, cb, url) ==
    IF cb \in Waiters /\ MatchPattern(waiter_pattern[cb], url)
    THEN RemoveFirst(cbs, cb)
    ELSE cbs

\* "for cb in self._<kind>_callbacks: cb(event)" walks the list itself by
\* index, from position i on.  Where the call is not inside try/except
\* (swallow is FALSE) an Exception a callback raises ends the loop and
\* leaves the Page's handler.
RECURSIVE ForEachCallback(_, _, _, _, _)
ForEachCallback(cbs, i, log, url, swallow) ==
    IF i > Len(cbs)
    THEN [callbacks |-> cbs, invoked |-> log]
    ELSE IF cbs[i] = "raises" /\ ~swallow
         THEN [callbacks |-> cbs, invoked |-> Append(log, cbs[i])]
         ELSE ForEachCallback(CallbackBody(cbs, cbs[i], url), i + 1,
                              Append(log, cbs[i]), url, swallow)

\* The futures after the handlers of the waiters in invoked have run:
\* "if not future.done(): future.set_result(event)" in those that match.
Resolved(url, invoked) ==
    [w \in Waiters |->
        IF /\ w \in Range(invoked)
           /\ MatchPattern(waiter_pattern[w], url)
           /\ waiter_fut[w].state = "pending"
        THEN Captured(url)
        ELSE waiter_fut[w]]

\* The Page hands an event to the callbacks of its kind.
Deliver(kind, url, swallow) ==
    LET r == ForEachCallback(callbacks[kind], 1, << >>, url, swallow)
    IN  /\ callbacks' = [callbacks EXCEPT ![kind] = r.callbacks]
        /\ waiter_fut' = Resolved(url, r.invoked)
        /\ last_event' = [kind |-> kind, url |-> url,
                          before |-> callbacks[kind],
                          invoked |-> r.invoked, dismissed |-> 0]

\* _handle_event for an event of this page's context other than a dialog or
\* a request: network.responseCompleted, log.entryAdded (console, error),
\* browsingContext.downloadWillBegin, browsingContext.load and
\* fragmentNavigated (navigation), vibium:ws.created.
PageEvent(kind, url) ==
    /\ kind \in Kinds \ {"dialog", "request"}
    /\ Deliver(kind, url, FALSE)
    /\ UNCHANGED <<collectorVars, waiter_pc, waiter_kind, waiter_pattern,
                   waiter_elapsed, routeVars, contextVars, connVars,
                   bridgeVars>>

\* _handle_event, lines 884-892: an event that names another context is not
\* handled.
EventOfOtherContext ==
    /\ last_event' = [NoEvent EXCEPT !.kind = "filtered"]
    /\ UNCHANGED <<callbacks, collectorVars, waiter_pc, waiter_fut,
                   waiter_kind, waiter_pattern, waiter_elapsed, routeVars,
                   contextVars, connVars, bridgeVars>>

\* The context an event names, in params.context or in source.context: none
\* at all, that of this Page, or that of another Page.
EventContexts == {"none", "own", "other"}

\* The kinds of callbacks a log.entryAdded event goes to.
LogKinds == {"console", "error"}

\* _handle_event, lines 876-887: an event is left alone if params.context
\* is there and is not this Page's context, unless it is a log.entryAdded
\* whose source.context is this Page's context.
Filtered(kind, context, source) ==
    /\ context \notin {"none", "own"}
    /\ kind \in LogKinds => source # "own"

\* _handle_event for an event with the given params.context and
\* source.context.
HandleEvent(kind, context, source) ==
    IF Filtered(kind, context, source)
    THEN EventOfOtherContext
    ELSE PageEvent(kind, <<"a">>)

\* _handle_user_prompt_opened, lines 968-971: with no dialog callback the
\* Page schedules dialog.dismiss() itself.
AutoDismiss == IF callbacks["dialog"] = << >> THEN 1 ELSE 0

\* _handle_user_prompt_opened: the dialog callbacks are invoked inside
\* try/except.
UserPromptOpened ==
    /\ LET r == ForEachCallback(callbacks["dialog"], 1, << >>, << >>, TRUE)
       IN  /\ callbacks' = [callbacks EXCEPT !["dialog"] = r.callbacks]
           /\ waiter_fut' = Resolved(<< >>, r.invoked)
           /\ last_event' = [kind |-> "dialog", url |-> << >>,
                             before |-> callbacks["dialog"],
                             invoked |-> r.invoked,
                             dismissed |-> AutoDismiss]
    /\ UNCHANGED <<collectorVars, waiter_pc, waiter_kind, waiter_pattern,
                   waiter_elapsed, routeVars, contextVars, connVars,
                   bridgeVars>>

\* The names remove_all_listeners is called with: a list's name, None
\* ("all") or a name it does not know.
ListenerNames == Kinds \cup {"all", "unknown"}

\* A remove_all_listeners that clears every list whatever name it is given.
Cleared_All(event, kind) == << >>

\* remove_all_listeners, lines 821-838: the list of one kind afterwards.
Cleared(event, kind) ==
    IF event = "all" \/ event = kind THEN << >> ELSE callbacks[kind]

\* remove_all_listeners, with _teardown_data_collector when no request or
\* response callback and no route is left.
RemoveAllListeners(event) ==
    /\ callbacks' = [k \in Kinds |-> Cleared(event, k)]
    /\ data_collector_id' =
          IF /\ Cleared(event, "request") = << >>
             /\ Cleared(event, "response") = << >>
             /\ routes = << >>
          THEN "none"
          ELSE data_collector_id
    /\ removals' =
          IF /\ Cleared(event, "request") = << >>
             /\ Cleared(event, "response") = << >>
             /\ routes = << >>
             /\ data_collector_id = "set"
          THEN removals + 1
          ELSE removals
    /\ UNCHANGED <<setup_tasks, collectors, waiter_pc, waiter_fut,
                   waiter_kind, waiter_pattern, waiter_elapsed, last_event,
                   routeVars, contextVars, connVars, bridgeVars>>

\* The network.removeDataCollector command _teardown_data_collector handed
\* to ensure_future is carried out: the server drops the collector.
CollectorRemoved ==
    /\ removals > 0
    /\ removals' = removals - 1
    /\ collectors' = collectors - 1
    /\ UNCHANGED <<data_collector_id, setup_tasks, callbacks, waiter_pc,
                   waiter_fut, waiter_kind, waiter_pattern, waiter_elapsed,
                   last_event, routeVars, contextVars, connVars, bridgeVars>>

-----------------------------------------------------------------------------
\* The routes of a Page: route, unroute and the blocked requests.  A route
\* is its pattern and its handler; the handler is named by the API that
\* registered it: "async" for a callable given to the async Page.route,
\* "sync" for the _sync_callback the sync Page.route wraps around the user's
\* callable.  The interceptId kept in each entry is never read and is left
\* out.

\* The decisions of the sync Route: fulfill(), continue_(), abort().
Decisions == {"fulfill", "continue", "abort"}

\* What the user's callable does when invoked: the decision methods it
\* calls on its Route, in order, and whether it then raises an Exception.
RECURSIVE CallSeqs(_)
CallSeqs(n) ==
    IF n = 0 THEN {<< >>}
    ELSE CallSeqs(n - 1) \cup
         {Append(cs, d) : cs \in {c \in CallSeqs(n - 1) : Len(c) = n - 1},
                          d \in Decisions}

Bodies == [calls : CallSeqs(MaxCalls), raises : BOOLEAN]

\* A body that calls nothing and returns.
NoBody == [calls |-> << >>, raises |-> FALSE]

\* The vibium:page.route commands in flight: the route() calls suspended in
\* line 718.
RouteCommands ==
    (IF route_pc = "sending" THEN 1 ELSE 0)
    + (IF other_route_pc = "sending" THEN 1 ELSE 0)

\* Page.route, lines 717-719: with no intercept yet, the command
\* vibium:page.route is sent and awaited first.
RouteCalled(pattern, api) ==
    /\ route_pc = "idle"
    /\ Len(routes) < MaxRoutes
    /\ IF intercept_id = "none"
       THEN /\ intercepts + RouteCommands < MaxIntercepts
            /\ route_pc' = "sending"
            /\ UNCHANGED <<routes, collectorVars>>
       ELSE /\ routes' = Append(routes, [pattern |-> pattern, api |-> api])
            /\ data_collector_id' = EnsureDataCollector("request")
            /\ SetupTask("request")
            /\ UNCHANGED route_pc
    /\ UNCHANGED <<callbacks, waiter_pc, waiter_fut, waiter_kind,
                   waiter_pattern, waiter_elapsed, last_event, intercept_id,
                   unroute_pc, last_request, interceptVars, contextVars, connVars,
                   bridgeVars>>

\* Page.route, lines 719-722: the command returned the intercept and the
\* suspended call route(pattern, api) goes on.  Nothing reads the arguments
\* of the call while it is suspended, so they are named here.
RouteReturns(pattern, api) ==
    /\ route_pc = "sending"
    /\ intercept_id' = "set"
    /\ intercepts' = intercepts + 1
    /\ data_collector_id' = EnsureDataCollector("request")
    /\ SetupTask("request")
    /\ routes' = Append(routes, [pattern |-> pattern, api |-> api])
    /\ route_pc' = "idle"
    /\ UNCHANGED <<callbacks, waiter_pc, waiter_fut, waiter_kind,
                   waiter_pattern, waiter_elapsed, last_event, unroute_pc,
                   last_request, other_route_pc, contextVars, connVars, bridgeVars>>

\* Page.route, line 718: the command failed and route raises.
RouteRaises ==
    /\ route_pc = "sending"
    /\ route_pc' = "idle"
    /\ UNCHANGED <<listenerVars, routes, intercept_id, unroute_pc,
                   last_request, interceptVars, contextVars, connVars, bridgeVars>>

\* Page.route called by a second task of the loop while the first call may
\* be suspended in its command (line 718): the same lines 717-722, read by
\* a task of its own.
OtherRouteCalled(pattern, api) ==
    /\ other_route_pc = "idle"
    /\ Len(routes) < MaxRoutes
    /\ IF intercept_id = "none"
       THEN /\ intercepts + RouteCommands < MaxIntercepts
            /\ other_route_pc' = "sending"
            /\ UNCHANGED <<routes, collectorVars>>
       ELSE /\ routes' = Append(routes, [pattern |-> pattern, api |-> api])
            /\ data_collector_id' = EnsureDataCollector("request")
            /\ SetupTask("request")
            /\ UNCHANGED other_route_pc
    /\ UNCHANGED <<callbacks, waiter_pc, waiter_fut, waiter_kind,
                   waiter_pattern, waiter_elapsed, last_event, intercept_id,
                   intercepts, route_pc, unroute_pc, last_request,
                   contextVars, connVars, bridgeVars>>

\* The command of the second call returned an intercept of its own; the
\* call stores its id over whatever is recorded and goes on.
OtherRouteReturns(pattern, api) ==
    /\ other_route_pc = "sending"
    /\ intercept_id' = "set"
    /\ intercepts' = intercepts + 1
    /\ data_collector_id' = EnsureDataCollector("request")
    /\ SetupTask("request")
    /\ routes' = Append(routes, [pattern |-> pattern, api |-> api])
    /\ other_route_pc' = "idle"
    /\ UNCHANGED <<callbacks, waiter_pc, waiter_fut, waiter_kind,
                   waiter_pattern, waiter_elapsed, last_event, route_pc,
                   unroute_pc, last_request, contextVars, connVars,
                   bridgeVars>>

\* An unroute that drops every route.
Unrouted_All(pattern) == << >>

\* unroute, line 726: the routes of every other pattern.
Unrouted(pattern) == SelectSeq(routes, LAMBDA r : r.pattern # pattern)

\* unroute, lines 726-728: drop the routes of the pattern; if none is left
\* and there is an intercept, send network.removeIntercept and await it,
\* otherwise return.  unroute_pc keeps how the last call ended.
UnrouteCalled(pattern) ==
    /\ unroute_pc # "removing"
    /\ routes' = Unrouted(pattern)
    /\ unroute_pc' = IF routes' = << >> /\ intercept_id # "none"
                     THEN "removing"
                     ELSE "returned"
    /\ UNCHANGED <<listenerVars, intercept_id, route_pc, last_request, interceptVars,
                   contextVars, connVars, bridgeVars>>

\* unroute, line 729: the command returned.
UnrouteReturns ==
    /\ unroute_pc = "removing"
    /\ intercept_id' = "none"
    /\ intercepts' = intercepts - 1
    /\ unroute_pc' = "returned"
    /\ UNCHANGED <<listenerVars, routes, route_pc, last_request, other_route_pc, contextVars,
                   connVars, bridgeVars>>

\* unroute, line 728: the command failed and unroute raises.
UnrouteRaises ==
    /\ unroute_pc = "removing"
    /\ unroute_pc' = "raised"
    /\ UNCHANGED <<listenerVars, routes, intercept_id, route_pc, last_request, interceptVars,
                   contextVars, connVars, bridgeVars>>

\* The routes whose pattern matches the URL.
Matching(rs, url) ==
    {i \in 1..Len(rs) : MatchPattern(rs[i].pattern, url)}

\* A Page that hands the request to the last route that matches.
FirstMatch_Last(rs, url) ==
    IF Matching(rs, url) = {} THEN 0
    ELSE CHOOSE i \in Matching(rs, url) : \A j \in Matching(rs, url) : j <= i

\* "for route_entry in self._routes", from position i on, up to the first
\* entry whose pattern matches.
RECURSIVE NextMatch(_, _, _)
NextMatch(rs, url, i) ==
    IF i > Len(rs) THEN 0
    ELSE IF MatchPattern(rs[i].pattern, url) THEN i
    ELSE NextMatch(rs, url, i + 1)

\* _handle_before_request_sent, lines 929-930 and 939: the loop over the
\* routes stops at the first whose pattern matches; 0 if none does.
FirstMatch(rs, url) == NextMatch(rs, url, 1)

\* sync Route: _decision starts as "continue" and each of fulfill(),
\* continue_() and abort() replaces it.
RECURSIVE Decide(_, _)
Decide(decision, calls) ==
    IF calls = << >> THEN decision ELSE Decide(Head(calls), Tail(calls))

\* What invoking the handler of a route issues for the request.  The
\* _sync_callback runs the user's callable and then schedules the command of
\* the decision; an Exception of the callable leaves _sync_callback before
\* that.  What an async handler does with its Route is its own affair.
HandlerIssues(api, body) ==
    IF api = "sync" /\ ~body.raises
    THEN <<Decide("continue", body.calls)>>
    ELSE << >>

\* _handle_before_request_sent for an event of this page that carries its
\* request id: a blocked request goes to the first matching route, or is
\* continued by the Page; any other request goes to the request callbacks.
\* An Exception of the route handler is caught (lines 937-938).  The body
\* is what the handler does if one is invoked; only the callable of a sync
\* route has a Route to make decision calls on.
BeforeRequestSent(url, blocked, body) ==
    IF blocked
    THEN /\ LET i == FirstMatch(routes, url)
            IN  /\ i = 0 => body = NoBody
                /\ (i # 0 /\ body.calls # << >>) => routes[i].api = "sync"
                /\ last_request' =
                      [blocked |-> TRUE,
                       matching |-> Matching(routes, url),
                       invoked |-> IF i = 0 THEN << >> ELSE <<i>>,
                       issued |-> IF i = 0 THEN <<"continueRequest">>
                                  ELSE HandlerIssues(routes[i].api, body)]
         /\ UNCHANGED <<listenerVars, routes, intercept_id, route_pc,
                        unroute_pc, interceptVars, contextVars, connVars, bridgeVars>>
    ELSE /\ body = NoBody
         /\ Deliver("request", url, FALSE)
         /\ UNCHANGED <<collectorVars, waiter_pc, waiter_kind,
                        waiter_pattern, waiter_elapsed, routeVars,
                        contextVars, connVars, bridgeVars>>

-----------------------------------------------------------------------------
\* The page and popup callbacks of a Browser (async_api/browser.py).

\* The context ids a contextCreated event may carry; "" stands for an event
\* without one.
Contexts == {"", "c1", "c2"}

\* on_page
OnPage(cb) ==
    /\ Len(page_callbacks) < MaxListeners
    /\ page_callbacks' = Append(page_callbacks, cb)
    /\ UNCHANGED <<popup_callbacks, seen_context_ids, last_context,
                   listenerVars, routeVars, connVars, bridgeVars>>

\* on_popup
OnPopup(cb) ==
    /\ Len(popup_callbacks) < MaxListeners
    /\ popup_callbacks' = Append(popup_callbacks, cb)
    /\ UNCHANGED <<page_callbacks, seen_context_ids, last_context,
                   listenerVars, routeVars, connVars, bridgeVars>>

\* _handle_event, line 36: the event is dropped if it has no context id or
\* the id was seen before.
SeenBefore(context) == context = "" \/ context \in seen_context_ids

\* _handle_event for browsingContextCreated: a context not seen before is
\* remembered and a Page for it is handed to the popup callbacks if the
\* event names an originalOpener, to the page callbacks otherwise.  The
\* callbacks are not called inside try/except.
ContextCreated(context, opener) ==
    LET cbs == IF opener THEN popup_callbacks ELSE page_callbacks
    IN  /\ seen_context_ids' = IF SeenBefore(context)
                               THEN seen_context_ids
                               ELSE seen_context_ids \cup {context}
        /\ last_context' =
              [context |-> context, opener |-> opener,
               seen |-> SeenBefore(context), before |-> cbs,
               invoked |-> IF SeenBefore(context) THEN << >>
                           ELSE ForEachCallback(cbs, 1, << >>, << >>,
                                                FALSE).invoked]
        /\ UNCHANGED <<page_callbacks, popup_callbacks, listenerVars,
                       routeVars, connVars, bridgeVars>>

\* Browser.remove_all_listeners for 'page', 'popup', None ("all") or a name
\* it does not know.
BrowserRemoveAllListeners(event) ==
    /\ page_callbacks' = IF event \in {"all", "page"}
                         THEN << >> ELSE page_callbacks
    /\ popup_callbacks' = IF event \in {"all", "popup"}
                          THEN << >> ELSE popup_callbacks
    /\ UNCHANGED <<seen_context_ids, last_context, listenerVars, routeVars,
                   connVars, bridgeVars>>

-----------------------------------------------------------------------------

\* The send calls, the receive loop and close().
NextSend ==
    \/ \E c \in Callers : Send(c)
    \/ \E c \in Callers : DrainReturns(c)
    \/ \E c \in Callers : DrainRaises(c)
    \/ \E c \in Callers : Deadline(c)
    \/ \E c \in Callers : Timeout(c)
    \/ \E c \in Callers : TimeoutRaises(c)
    \/ \E c \in Callers : Resume(c)
    \/ \E c \in Callers : CancelCaller(c)
    \/ \E c \in Callers : CancelRaises(c)
    \/ \E line \in Lines : Receive(line)
    \/ Eof
    \/ ReadError
    \/ ReceiverCancelled
    \/ CloseCalled
    \/ CloseResumes
    \/ StdinLost

\* The handler list and the receive loop.
NextEvents ==
    \/ \E h \in Handlers : OnEvent(h)
    \/ \E h \in Handlers : RemoveEventHandler(h)
    \/ \E line \in Lines : Receive(line)
    \/ Eof
    \/ ReadError

\* The send calls and the receive loop of a client that is not closed by
\* close().
NextOpen ==
    \/ \E c \in Callers : Send(c)
    \/ \E c \in Callers : DrainReturns(c)
    \/ \E c \in Callers : DrainRaises(c)
    \/ \E c \in Callers : Deadline(c)
    \/ \E c \in Callers : Timeout(c)
    \/ \E c \in Callers : TimeoutRaises(c)
    \/ \E c \in Callers : Resume(c)
    \/ \E c \in Callers : CancelCaller(c)
    \/ \E c \in Callers : CancelRaises(c)
    \/ \E line \in Lines : Receive(line)
    \/ Eof
    \/ ReadError
    \/ StdinLost

\* The sync handlers of routes and dialogs (sync_api/page.py) and the
\* follow-up commands they schedule on the event loop.

SyncHandlerKinds == {"route", "dialog"}

\* The send call the next task created on the loop will make: the first
\* that is neither made nor promised to a task; 0 if there is none left.
NextTask ==
    IF \E c \in Callers : pc[c] = "idle" /\ c \notin scheduled
    THEN CHOOSE c \in Callers :
            /\ pc[c] = "idle" /\ c \notin scheduled
            /\ \A d \in Callers :
                  (pc[d] = "idle" /\ d \notin scheduled) => c <= d
    ELSE 0

\* A _sync_callback that runs its follow-up through the bridge,
\* self._loop.run(...), on the thread of the loop itself: the thread waits
\* for a future only the loop can complete.
EnsureFuture_Run(tasks, c) == [tasks |-> tasks \cup {c}, thread |-> "blocked"]

\* asyncio.ensure_future(coro), called on the thread of the running loop: a
\* task is created on that loop and the caller goes on at once.
EnsureFuture(tasks, c) == [tasks |-> tasks \cup {c}, thread |-> loop_thread]

\* The receive loop hands an event to a Page whose route handler (kind
\* "route", a blocked request that matches the route) or dialog handler
\* (kind "dialog") is a _sync_callback: the user's callable runs; unless it
\* raises, the command of its decision is scheduled with ensure_future.
\* The Exception of a callable that raises is caught by the Page.
SyncCallback(kind, raises) ==
    /\ receiver_task = "running"
    /\ loop_thread = "free"
    /\ NextTask # 0
    /\ LET r == EnsureFuture(scheduled, NextTask)
       IN  IF raises
           THEN UNCHANGED <<scheduled, loop_thread>>
           ELSE /\ scheduled' = r.tasks
                /\ loop_thread' = r.thread
    /\ UNCHANGED <<sendVars, receiver_task, stdin, close_pc, event_handlers,
                   last_effect, last_dispatch, close_calls, startVars,
                   bridgeVars, pageVars, transportVars, dispatching,
                   last_mutation>>

\* The task of a follow-up runs: route.continue_ / fulfill / abort or
\* dialog.accept / dismiss sends its command with client.send.
FollowUpRuns(c) ==
    /\ c \in scheduled
    /\ loop_thread = "free"
    /\ Send(c)

\* A step of the send call of a follow-up, on the loop.
FollowUpGoesOn(c) ==
    /\ loop_thread = "free"
    /\ DrainReturns(c) \/ Resume(c)

\* The receive loop reads the response the binary wrote for the command of
\* a follow-up that is waiting for it.
Answer(c) ==
    /\ loop_thread = "free"
    /\ pc[c] \in {"drain", "wait"}
    /\ ~Done(fut[c])
    /\ \E t \in {"success", "error"} : Receive(Response(msg_id[c], t))

\* The receive loop reads an event between the steps of the follow-ups.
EventBetween ==
    /\ loop_thread = "free"
    /\ Receive(Event("x.y"))

\* Sync handlers and their follow-ups on a connection that stays open.
NextFollowUp ==
    \/ \E kind \in SyncHandlerKinds, raises \in BOOLEAN :
          SyncCallback(kind, raises)
    \/ \E c \in Callers : FollowUpRuns(c)
    \/ \E c \in Callers : FollowUpGoesOn(c)
    \/ \E c \in Callers : Answer(c)
    \/ EventBetween
    \/ OnEvent("plain")

\* The sync Browser (sync_api/browser.py): its methods run on the calling
\* thread while Browser._handle_event runs on the thread of the loop, one
\* callback at a time.

\* What the steps of the two threads leave alone.
besideThreads ==
    <<listenerVars, routeVars, sendVars, receiver_task, stdin, close_pc,
      event_handlers, last_effect, last_dispatch, close_calls, startVars,
      transportVars, scheduled, loop_thread, bridgeVars>>

\* The list named by the loop thread's position.
ListOf(name) == IF name = "popup" THEN popup_callbacks ELSE page_callbacks

\* sync Browser.on_page / on_popup: the wrapper is appended by
\* self._async.on_page(_wrapper) / on_popup on the calling thread.
SyncOn(name, cb) ==
    /\ Len(ListOf(name)) < MaxListeners
    /\ page_callbacks' = IF name = "page" THEN Append(page_callbacks, cb)
                         ELSE page_callbacks
    /\ popup_callbacks' = IF name = "popup" THEN Append(popup_callbacks, cb)
                          ELSE popup_callbacks
    /\ last_mutation' = [list |-> name,
                         dispatching |-> dispatching.list = name]
    /\ UNCHANGED <<seen_context_ids, last_context, dispatching,
                   besideThreads>>

\* sync Browser.remove_all_listeners: self._async.remove_all_listeners on
\* the calling thread.
SyncRemoveAllListeners(event) ==
    /\ page_callbacks' = IF event \in {"all", "page"}
                         THEN << >> ELSE page_callbacks
    /\ popup_callbacks' = IF event \in {"all", "popup"}
                          THEN << >> ELSE popup_callbacks
    /\ last_mutation' =
          [list |-> event,
           dispatching |-> /\ dispatching.list # "none"
                           /\ event \in {"all", dispatching.list}]
    /\ UNCHANGED <<seen_context_ids, last_context, dispatching,
                   besideThreads>>

\* Browser._handle_event on the loop thread, lines 31-40: up to the start
\* of "for cb in callbacks".
DispatchBegins(context, opener) ==
    LET name == IF opener THEN "popup" ELSE "page"
    IN  /\ dispatching = NotDispatching
        /\ seen_context_ids' = IF SeenBefore(context)
                               THEN seen_context_ids
                               ELSE seen_context_ids \cup {context}
        /\ last_context' =
              [context |-> context, opener |-> opener,
               seen |-> SeenBefore(context), before |-> ListOf(name),
               invoked |-> << >>]
        /\ dispatching' = IF SeenBefore(context) \/ ListOf(name) = << >>
                          THEN NotDispatching
                          ELSE [list |-> name, i |-> 1]
        /\ UNCHANGED <<page_callbacks, popup_callbacks, last_mutation,
                       besideThreads>>

\* Browser._handle_event, lines 41-43: one turn of "for cb in callbacks"
\* over the list as it is now; the Exception of a callback ends the loop.
DispatchStep ==
    LET cbs == ListOf(dispatching.list)
        i == dispatching.i
    IN  /\ dispatching # NotDispatching
        /\ IF i > Len(cbs)
           THEN /\ dispatching' = NotDispatching
                /\ UNCHANGED last_context
           ELSE /\ last_context' =
                      [last_context EXCEPT !.invoked = Append(@, cbs[i])]
                /\ dispatching' = IF cbs[i] = "raises"
                                  THEN NotDispatching
                                  ELSE [dispatching EXCEPT !.i = i + 1]
        /\ UNCHANGED <<page_callbacks, popup_callbacks, seen_context_ids,
                       last_mutation, besideThreads>>

\* A sync Browser used from the calling thread while the loop thread
\* dispatches contextCreated events.
NextThreads ==
    \/ \E name \in {"page", "popup"}, cb \in UserCallbacks : SyncOn(name, cb)
    \/ \E e \in {"page", "popup", "all", "unknown"} :
          SyncRemoveAllListeners(e)
    \/ \E c \in Contexts, opener \in BOOLEAN : DispatchBegins(c, opener)
    \/ DispatchStep

\* A sync call: run() of the bridge with an operation that waits inside
\* send.

\* The send call the operation of the sync call makes.
OpCaller == CHOOSE c \in Callers : \A d \in Callers : c <= d

\* The thread of the bridge runs its loop.
LoopRunning == bridge_thread # 0 /\ workers[bridge_thread] = "running"

\* How the operation ends when its send call ends with outcome o.
OpOutcome(o) ==
    IF o.kind = "result" THEN "value"
    ELSE IF o.kind = "TimeoutError" THEN "OpTimeoutError"
    ELSE "OpError"

\* The one sync call: run(send(...)) on a started bridge.
RunSend ==
    /\ bridge_loop # 0
    /\ op = "none"
    /\ RunCalled

\* The loop starts the submitted coroutine, which calls send.  A coroutine
\* whose future was cancelled before that is never started.
OpStarts ==
    /\ op = "pending"
    /\ LoopRunning
    /\ Send(OpCaller)

\* The send call ended and with it the operation: its outcome goes to the
\* future run() waits on.
OpEnds ==
    /\ pc[OpCaller] = "done"
    /\ OpCompletes(OpOutcome(outcome[OpCaller]))

\* future.cancel() of run(), line 56, reaches the loop: the task of the
\* operation is cancelled while it waits inside send.
CancelArrives ==
    /\ op = "cancelled"
    /\ LoopRunning
    /\ CancelCaller(OpCaller)

\* The steps of the send calls on the loop.
SendGoesOn(c) ==
    /\ LoopRunning
    /\ DrainReturns(c) \/ Resume(c) \/ CancelRaises(c)

\* A task on the loop calls send beside the operation of the sync call.
OtherSend(c) ==
    /\ c # OpCaller
    /\ LoopRunning
    /\ Send(c)

\* The receive loop reads a response.
ResponseRead(i, t) ==
    /\ LoopRunning
    /\ Receive(Response(i, t))

\* One sync call that sends a command, and the tasks beside it.
NextRunSend ==
    \/ StartCalled
    \/ RunSend
    \/ OpStarts
    \/ OpEnds
    \/ WaitReturns
    \/ WaitTimesOut
    \/ ExceptClause
    \/ CancelArrives
    \/ \E c \in Callers : SendGoesOn(c)
    \/ \E c \in Callers : OtherSend(c)
    \/ \E i \in WireIds, t \in {"success", "error"} : ResponseRead(i, t)

\* The lines the binary writes ahead of the receive loop in the runs of
\* NextOrder.
WrittenLines ==
    {Response(FirstId, "success"), Response(FirstId + 1, "error"),
     Event("x.y"), NonJson}

\* The receive loop reads a line that was written ahead.
ReadWritten(line) == stdout # << >> /\ Receive(line)

\* The binary writes ahead of the receive loop, which hands the lines to
\* the send calls and the event handlers.
NextOrder ==
    \/ \E line \in WrittenLines : Write(line)
    \/ \E line \in Lines : ReadWritten(line)
    \/ \E c \in Callers : Send(c)
    \/ OnEvent("plain")
    \/ Eof

\* The start of the process, connect and the events that follow.
NextConnect ==
    \/ \E line \in BufferedLines : Buffer(line)
    \/ Connect
    \/ \E h \in Handlers : Attach(h)
    \/ \E line \in {Event("x.y"), OtherEvent} : Receive(line)
    \/ Eof

\* The bridge, called directly.
NextBridge ==
    \/ StartCalled
    \/ StopCalled
    \/ JoinReturns
    \/ JoinTimesOut
    \/ \E t \in 1..MaxStarts : WorkerExits(t)
    \/ \E t \in 1..MaxStarts : WorkerSticks(t)
    \/ RunCalled
    \/ \E r \in Completions : OpCompletes(r)
    \/ WaitReturns
    \/ WaitTimesOut
    \/ ExceptClause

\* The sync Browser from launch to close.
NextBrowser ==
    \/ Launch
    \/ LaunchReturns
    \/ Call
    \/ BrowserClose
    \/ BrowserCloseGoesOn
    \/ JoinReturns
    \/ JoinTimesOut
    \/ \E t \in 1..MaxStarts : WorkerExits(t)
    \/ \E t \in 1..MaxStarts : WorkerSticks(t)
    \/ \E r \in Completions : OpCompletes(r)
    \/ WaitReturns
    \/ WaitTimesOut
    \/ ExceptClause

\* The dialogs of a Page: callbacks, waiters and userPromptOpened events.
NextDialog ==
    \/ \E cb \in UserCallbacks : On("dialog", cb)
    \/ \E w \in Waiters, setup \in BOOLEAN : Capture(w, "dialog", AnyUrl, setup)
    \/ \E w \in Waiters : Await(w)
    \/ UserPromptOpened
    \/ \E w \in Waiters : WaiterDeadline(w)
    \/ \E w \in Waiters : WaiterReturns(w)
    \/ \E w \in Waiters : WaiterTimeout(w)
    \/ \E w \in Waiters : WaiterRaises(w)

\* The capture waiters of a Page on responses.
NextCapture ==
    \/ \E cb \in UserCallbacks : On("response", cb)
    \/ \E w \in Waiters, p \in Patterns, setup \in BOOLEAN :
          Capture(w, "response", p, setup)
    \/ \E w \in Waiters : Await(w)
    \/ \E url \in Urls : PageEvent("response", url)
    \/ \E w \in Waiters : WaiterDeadline(w)
    \/ \E w \in Waiters : WaiterReturns(w)
    \/ \E w \in Waiters : WaiterTimeout(w)
    \/ \E w \in Waiters : WaiterRaises(w)

\* The kinds of callbacks registered in the runs of NextListeners.
ListenedKinds == {"request", "response", "dialog", "console"}

\* The callbacks of a Page, of several kinds, and remove_all_listeners.
NextListeners ==
    \/ \E k \in ListenedKinds, cb \in UserCallbacks : On(k, cb)
    \/ \E k \in ListenedKinds \ {"dialog", "request"} : PageEvent(k, <<"a">>)
    \/ BeforeRequestSent(<<"a">>, FALSE, NoBody)
    \/ UserPromptOpened
    \/ EventOfOtherContext
    \/ \E e \in ListenerNames : RemoveAllListeners(e)
    \/ \E ok \in BOOLEAN : CollectorSetup(ok)
    \/ CollectorRemoved

\* The kinds of callbacks registered in the runs of NextFilter.
FilteredKinds == {"console", "response"}

\* A Page handed the events of every context of its client.
NextFilter ==
    \/ \E k \in FilteredKinds, cb \in UserCallbacks : On(k, cb)
    \/ \E k \in FilteredKinds, context \in EventContexts,
          source \in EventContexts : HandleEvent(k, context, source)
    \/ \E ok \in BOOLEAN : CollectorSetup(ok)

\* The capture context managers of dialogs, left by a body that returned
\* or by one that raised.
NextExit ==
    \/ \E w \in Waiters : Capture(w, "dialog", AnyUrl, TRUE)
    \/ \E w \in Waiters : Await(w)
    \/ \E w \in Waiters : ExitRaised(w)
    \/ UserPromptOpened
    \/ \E w \in Waiters : WaiterDeadline(w)
    \/ \E w \in Waiters : WaiterReturns(w)
    \/ \E w \in Waiters : WaiterTimeout(w)
    \/ \E w \in Waiters : WaiterRaises(w)

\* route() called by two tasks, and unroute().
NextIntercepts ==
    \/ \E q \in Patterns : RouteCalled(q, "async")
    \/ \E q \in Patterns : RouteReturns(q, "async")
    \/ \E q \in Patterns : OtherRouteCalled(q, "async")
    \/ \E q \in Patterns : OtherRouteReturns(q, "async")
    \/ \E q \in Patterns : UnrouteCalled(q)
    \/ UnrouteReturns

\* The routes of a Page and the requests they block.
NextRoutes ==
    \/ \E p \in Patterns, api \in {"async", "sync"} : RouteCalled(p, api)
    \/ \E p \in Patterns, api \in {"async", "sync"} : RouteReturns(p, api)
    \/ RouteRaises
    \/ \E p \in Patterns : UnrouteCalled(p)
    \/ UnrouteReturns
    \/ UnrouteRaises
    \/ \E url \in Urls, body \in Bodies : BeforeRequestSent(url, TRUE, body)

\* The contexts a Browser is told of.
NextContexts ==
    \/ \E cb \in UserCallbacks : OnPage(cb)
    \/ \E cb \in UserCallbacks : OnPopup(cb)
    \/ \E c \in Contexts, opener \in BOOLEAN : ContextCreated(c, opener)
    \/ \E e \in {"page", "popup", "all", "unknown"} :
          BrowserRemoveAllListeners(e)

NextPage ==
    NextDialog \/ NextCapture \/ NextListeners \/ NextRoutes \/ NextContexts

Next ==
    NextSend \/ NextEvents \/ NextConnect \/ NextBridge \/ NextBrowser
    \/ NextPage

Spec == Init /\ [][Next]_vars

\* The client with no event handler registered.
SpecSend == Init /\ [][NextSend]_vars

\* The client with no send call made.
SpecEvents == Init /\ [][NextEvents]_vars

\* A bridge driven by one calling thread.
SpecBridge == Init /\ [][NextBridge]_vars

\* The bridge where join() and a thread asked to stop take their steps.
FairBridge ==
    /\ SpecBridge
    /\ WF_vars(JoinReturns \/ JoinTimesOut)
    /\ \A t \in 1..MaxStarts : WF_vars(WorkerExits(t))

\* One sync Browser.
SpecBrowser == Init /\ [][NextBrowser]_vars

\* The dialogs of one Page.
SpecDialog == Init /\ [][NextDialog]_vars

\* The capture waiters of one Page.
SpecCapture == Init /\ [][NextCapture]_vars

\* The callbacks of one Page.
SpecListeners == Init /\ [][NextListeners]_vars

\* The routes of one Page.
SpecRoutes == Init /\ [][NextRoutes]_vars

\* The contexts of one Browser.
SpecContexts == Init /\ [][NextContexts]_vars

\* Capture context managers entered and left.
SpecExit == Init /\ [][NextExit]_vars

\* Two tasks calling route() and a task calling unroute().
SpecIntercepts == Init /\ [][NextIntercepts]_vars

\* The event loop runs every ready task and the binary answers every
\* command it was sent.
FairFollowUp ==
    /\ Init /\ [][NextFollowUp]_vars
    /\ \A c \in Callers : WF_vars(FollowUpRuns(c))
    /\ \A c \in Callers : WF_vars(FollowUpGoesOn(c))
    /\ \A c \in Callers : WF_vars(Answer(c))

\* A sync call on a loop that runs every ready task.
FairRunSend ==
    /\ Init /\ [][NextRunSend]_vars
    /\ WF_vars(CancelArrives)
    /\ WF_vars(SendGoesOn(OpCaller))

\* One Page among the Pages of a client.
SpecFilter == Init /\ [][NextFilter]_vars

\* The two threads of a sync Browser.
SpecThreads == Init /\ [][NextThreads]_vars

\* The client reading a pipe the binary has written ahead.
SpecOrder == Init /\ [][NextOrder]_vars

\* The client from the start of its process on.
SpecConnect == InitStart /\ [][NextConnect]_vars

\* The steps of send call c that the event loop runs once they are ready:
\* a task woken by its future, drain() or a cancellation is run.
Scheduled(c) ==
    \/ DrainReturns(c)
    \/ DrainRaises(c)
    \/ Timeout(c)
    \/ TimeoutRaises(c)
    \/ Resume(c)
    \/ CancelRaises(c)

\* The client that is not closed by close(), on an event loop that runs
\* every ready task.
FairOpen ==
    Init /\ [][NextOpen]_vars /\ \A c \in Callers : WF_vars(Scheduled(c))

-----------------------------------------------------------------------------
\* The send calls that hold a response: in their future, or as their outcome.
HoldsResponse(c) ==
    \/ fut[c].state = "result"
    \/ outcome[c].kind \in {"result", "BiDiError"}

\* The id of the response call c holds.
ResponseId(c) == IF fut[c].state = "result" THEN fut[c].id ELSE outcome[c].id

\* C1: whatever calls are outstanding together and in whatever order their
\* responses arrive, the response a send call holds or ends with carries the
\* id that call wrote in its own request.
C1_OwnResponse ==
    \A c \in Callers : HoldsResponse(c) => ResponseId(c) = msg_id[c]

\* C1: two calls are outstanding, and the later one already ended with its
\* response while the earlier one still waits for its own.
C1_Witness ==
    /\ pc[1] = "wait"
    /\ fut[1] = PendingFuture
    /\ outcome[2] = [kind |-> "result", id |-> msg_id[2]]

\* C9: the n-th send of a client takes the id FirstId + n - 1: ids are
\* positive, start at 1 and grow by one with every send, the counter is above
\* every id issued, no two calls share an id, and the entry of an id in the
\* table belongs to the call that took that id.
C9_IdsIncrease ==
    /\ next_id >= FirstId
    /\ \A c \in Callers :
         pc[c] # "idle" =>
            /\ msg_id[c] = FirstId + (c - 1)
            /\ msg_id[c] >= 1
            /\ msg_id[c] < next_id
    /\ \A c, d \in Callers :
         (c # d /\ pc[c] # "idle" /\ pc[d] # "idle") => msg_id[c] # msg_id[d]
    /\ \A i \in DOMAIN pending : msg_id[pending[i]] = i

\* C9: every send of the run has been issued and two of them are pending
\* together, under different ids.
C9_Witness ==
    /\ \A c \in Callers : pc[c] # "idle"
    /\ Cardinality(DOMAIN pending) >= 2
    /\ next_id = FirstId + MaxSends

-----------------------------------------------------------------------------
\* The step in which send call c ends.
Ends(c) == pc[c] # "done" /\ pc'[c] = "done"

\* C2: when the response of a call and its timeout both occur, in either
\* order, the call gets exactly one outcome.  An outcome is delivered when
\* the call ends and only then, and is never replaced; a call whose future
\* holds the response ends with that response even if its deadline has
\* passed; a call that took the timeout keeps its future cancelled, so a
\* response arriving afterwards is not delivered as well, and it ends with
\* the timeout (or with the cancellation of its task); and a waiting call
\* whose response or deadline has come can take its step.
C2_ExactlyOneOutcome ==
    [][\A c \in Callers :
          /\ (pc'[c] = "done") <=> (outcome'[c] # NoOutcome)
          /\ outcome[c] # NoOutcome => outcome'[c] = outcome[c]
          /\ (pc[c] = "wait" /\ fut[c].state = "result" /\ Ends(c)) =>
                /\ outcome'[c].kind \in {"result", "BiDiError"}
                /\ outcome'[c].id = fut[c].id
          /\ pc[c] = "timed_out" =>
                /\ fut[c] = CancelledFuture
                /\ Ends(c) =>
                      outcome'[c].kind \in {"TimeoutError", "CancelledError"}
          /\ (pc[c] = "wait" /\ (elapsed[c] \/ fut[c].state = "result")) =>
                ENABLED (Resume(c) \/ Timeout(c))
      ]_vars

\* C2: the response of a call is stored in its future and its deadline has
\* passed, both before the call was resumed.
C2_Witness ==
    \E c \in Callers :
        pc[c] = "wait" /\ elapsed[c] /\ fut[c].state = "result"

\* C3: a call takes the timeout only when its deadline has passed and no
\* response is stored (not before); once the deadline has passed with the
\* future still pending, the timeout is the step the call can take; the
\* call then ends with TimeoutError (unless its task is cancelled first),
\* and whenever a call has ended with TimeoutError the table holds no entry
\* for its id.
C3_TimeoutThenNoEntry ==
    [][\A c \in Callers :
          /\ (pc[c] = "wait" /\ pc'[c] = "timed_out") =>
                elapsed[c] /\ fut[c] = PendingFuture
          /\ (pc[c] = "wait" /\ elapsed[c] /\ fut[c] = PendingFuture) =>
                ENABLED Timeout(c) /\ ~ENABLED Resume(c)
          /\ (pc[c] = "timed_out" /\ Ends(c)) =>
                outcome'[c].kind \in {"TimeoutError", "CancelledError"}
          /\ outcome'[c].kind = "TimeoutError" =>
                /\ pc[c] \in {"timed_out", "done"}
                /\ msg_id[c] \notin DOMAIN pending'
      ]_vars

\* C3: a call ended with TimeoutError while another call is still in the
\* table.
C3_Witness ==
    \E c, d \in Callers :
        /\ outcome[c].kind = "TimeoutError"
        /\ msg_id[d] \in DOMAIN pending
        /\ msg_id[c] \notin DOMAIN pending

\* The errors that say the connection is closed: the ConnectionError the
\* receive loop stores, and its subclass ConnectionResetError from drain().
ClosedErrors == {"ConnectionError", "ConnectionResetError"}

\* C4: when the receive loop ends on EOF or a read error, every future still
\* pending is failed with ConnectionError in that step; a call whose future
\* was failed so ends with a connection-closed error (with CancelledError if
\* its own task is cancelled while it is still in drain()), and its id
\* leaves the table when it ends; and every such call does end.
C4_EofFailsPending ==
    /\ [][\A c \in Callers :
            /\ (receiver_task = "running"
                  /\ receiver_task' \in {"eof", "oserror"}
                  /\ fut[c] = PendingFuture) => fut'[c] = ConnectionClosed
            /\ (fut[c] = ConnectionClosed /\ Ends(c)) =>
                  /\ \/ outcome'[c].kind \in ClosedErrors
                     \/ pc[c] = "drain" /\ outcome'[c].kind = "CancelledError"
                  /\ msg_id[c] \notin DOMAIN pending'
         ]_vars
    /\ \A c \in Callers : (fut[c] = ConnectionClosed) ~> (pc[c] = "done")

\* C4: the loop ended on EOF or a read error with two calls outstanding; one
\* has ended with ConnectionError, the other's future holds it.
C4_Witness ==
    /\ receiver_task \in {"eof", "oserror"}
    /\ \E c, d \in Callers :
          /\ c # d
          /\ outcome[c].kind = "ConnectionError"
          /\ fut[d] = ConnectionClosed
          /\ pc[d] = "wait"

\* C5: close() releases every send call outstanding when it is called.  If
\* the loop runs, the cancellation that close() requests ends the loop with
\* every pending future failed; a close() that finds the loop already ended
\* returns without suspending, so no call may be pending then.
C5_CloseReleasesAll ==
    [][/\ (receiver_task = "cancel_requested" /\ receiver_task' = "cancelled")
            => \A c \in Callers : fut'[c] # PendingFuture
       /\ (close_pc = "idle" /\ close_pc' = "done")
            => \A c \in Callers : fut[c] # PendingFuture
      ]_vars

\* C6: once the receive loop has ended, no send call is waiting on a future
\* that is still pending: a send issued then is rejected, not registered.
C6_NoSendWhenClosed ==
    receiver_task \in {"eof", "oserror", "cancelled", "crashed"} =>
        \A c \in Callers : fut[c] # PendingFuture

C8_StaleResponseNoOp ==
    [][/\ \A line \in Lines :
            (Receive(line) /\ line.kind = "response" /\ ~Resolves(line)) =>
                UNCHANGED <<sendVars, receiver_task, stdin, close_pc,
                            event_handlers, last_dispatch>>
       /\ \A c \in Callers :
            (Done(fut[c]) /\ ~Ends(c)) => fut'[c] = fut[c]
      ]_vars

\* C8: the last line read was a response that found no pending future, while
\* one call holds a resolved future, one has its cancelled future still in
\* the table, or one is still pending.
C8_Witness ==
    /\ last_effect = "ignored"
    /\ \E c, d \in Callers :
          /\ c # d
          /\ pc[c] = "timed_out"
          /\ msg_id[c] \in DOMAIN pending
          /\ fut[d] = PendingFuture

\* C10: the handlers the last event invoked are the handlers that were
\* registered when it was dispatched, each once, in registration order.
C10_AllHandlersInOrder == last_dispatch.invoked = last_dispatch.before

C11_HandlerErrorSwallowed ==
    [][\A line \in Lines :
          (Receive(line) /\ line.kind = "event"
             /\ "raises" \in Range(last_dispatch'.invoked)) =>
              /\ receiver_task' = "running"
              /\ UNCHANGED sendVars
              /\ \A j \in 1..Len(last_dispatch'.before) :
                    (\E i \in 1..(j - 1) :
                        last_dispatch'.before[i] = "raises") =>
                    last_dispatch'.before[j] \in Range(last_dispatch'.invoked)
      ]_vars

\* The list hs without any occurrence of h.
Without(hs, h) == SelectSeq(hs, LAMBDA x : x # h)

Count(hs, h) == Cardinality({i \in 1..Len(hs) : hs[i] = h})

Malformed == {"nonjson", "nonobject", "undecodable"}

\* C13: a line that cannot be decoded is dropped: reading it raises nothing
\* out of the loop, which keeps running so that the frames that follow are
\* still routed, and it touches no request and no handler.
C13_MalformedDropped ==
    [][\A line \in Lines :
          (Receive(line) /\ line.kind \in Malformed) =>
              /\ receiver_task' = "running"
              /\ UNCHANGED <<sendVars, event_handlers, last_dispatch>>
      ]_vars

\* The ways the receive loop ends that close() completes after.
Stopped == {"cancelled", "eof", "oserror"}

\* C15: once close() has completed, the receive loop is stopped and the pipe
\* is closed, and both stay so; close() can be called again, returns again
\* without suspending or raising, and changes nothing but the count of the
\* calls, whether the loop was cancelled by close() or ended on EOF or on a
\* read error.
C15_CloseIdempotent ==
    /\ [](close_pc = "done" =>
            /\ receiver_task \in Stopped
            /\ stdin # "open"
            /\ close_calls < MaxCloses => ENABLED CloseCalled)
    /\ [][close_pc = "done" =>
            /\ close_pc' = "done"
            /\ receiver_task' = receiver_task
            /\ close_calls' # close_calls =>
                  UNCHANGED <<sendVars, receiver_task, stdin, close_pc,
                              event_handlers, last_effect, last_dispatch,
                              startVars, bridgeVars, pageVars,
                              transportVars, syncVars>>
         ]_vars

\* C15: close() was called twice and completed twice, the first time by
\* cancelling the loop; the pipe was lost after the first call.
C15_Witness ==
    /\ close_calls = 2
    /\ close_pc = "done"
    /\ receiver_task = "cancelled"
    /\ stdin = "lost"

\* The worker threads that have been started.
Started == {t \in 1..MaxStarts : workers[t] # "unborn"}

\* C16: start() is idempotent.  While the bridge holds a loop, which it does
\* from a start() until the next stop(), the thread it holds is the one
\* started with that loop and the loop is the one the last start() returned;
\* a start() then creates no loop and no thread and returns the same loop.
\* A start() on a bridge that holds no loop creates exactly one loop and
\* starts exactly one thread.
C16_StartIdempotent ==
    /\ [](bridge_loop # 0 =>
            bridge_thread = bridge_loop /\ last_start = bridge_loop)
    /\ [][start_calls' # start_calls =>
            IF bridge_loop # 0
            THEN /\ last_start' = last_start
                 /\ UNCHANGED <<bridge_loop, bridge_thread, loops, workers>>
            ELSE /\ loops' = loops + 1
                 /\ Cardinality({t \in 1..MaxStarts : workers'[t] # "unborn"})
                      = Cardinality(Started) + 1
                 /\ last_start' = bridge_loop'
                 /\ bridge_loop' = loops'
         ]_vars

\* C16: start() was called three times with no stop(): there is one loop
\* and one worker thread.
C16_Witness ==
    /\ start_calls = 3
    /\ stops = 0
    /\ stop_pc = "idle"
    /\ loops = 1
    /\ Started = {1}
    /\ last_start = 1

\* The step in which a run() that submitted its operation ends.
RunEnds == run_pc # "idle" /\ run_pc' = "idle"

\* C17: a run() that submitted its operation ends in one of three ways: it
\* returns the operation's value; it raises the operation's own failure
\* unchanged; or, the operation being still pending after the timeout, it
\* cancels the operation and raises the bridge's timeout error.
C17_ThreeOutcomes ==
    [][RunEnds =>
          \/ op = "value" /\ run_out' = "value"
          \/ op \in {"OpError", "OpTimeoutError"} /\ run_out' = op
          \/ /\ op = "pending"
             /\ op' = "cancelled"
             /\ run_out' = "BridgeTimeoutError"
      ]_vars

\* C18: completion takes priority over the timeout: when the operation has
\* completed with a value by the time run() decides its outcome, run()
\* returns that value.
C18_CompletionWins ==
    [][(RunEnds /\ op = "value") => run_out' = "value"]_vars

\* C19: stop() always returns, and when it returns the worker thread it
\* joined is no longer running.
C19_StopEndsWorker ==
    /\ (stop_pc = "joining") ~> (stop_pc = "idle")
    /\ [][(stops' # stops /\ bridge_thread # 0) =>
            workers'[bridge_thread] = "exited"]_vars

\* C20: the worker thread of a sync Browser is started once, at launch, and
\* once close() has returned or raised, stop() has been performed, once.
C20_TornDownOnClose ==
    /\ browser_pc \notin {"none", "launching", "launch_raised"} =>
          start_calls = 1 /\ loops = 1
    /\ browser_pc \in {"closed", "close_raised"} =>
          stops = 1 /\ bridge_loop = 0 /\ bridge_thread = 0

-----------------------------------------------------------------------------
\* The send calls whose request has been written and that have not ended.
Written(c) == pc[c] \in {"drain", "wait", "timed_out", "cancelled"}

\* C28: send stores the pending entry of its id before it writes the request:
\* every call whose request has been written and that has not ended has its
\* entry in the table, under the id it wrote; and a response to that id that
\* is read while the call is still in the drain() that follows the write,
\* with nothing stored for it yet, finds the entry and is stored in the
\* call's future.
C28_StoredBeforeWrite ==
    /\ [](\A c \in Callers :
             Written(c) =>
                msg_id[c] \in DOMAIN pending /\ pending[msg_id[c]] = c)
    /\ [][\A c \in Callers : \A t \in {"success", "error"} :
             (/\ pc[c] = "drain"
              /\ fut[c] = PendingFuture
              /\ Receive(Response(msg_id[c], t))) =>
                fut'[c] = SetResult(Response(msg_id[c], t))
         ]_vars

\* C28: the response of a call was read and stored while the call was still
\* in the drain() that follows its write.
C28_Witness ==
    \E c \in Callers :
        pc[c] = "drain" /\ fut[c].state = "result" /\ fut[c].id = msg_id[c]

C30_RemovalKeepsOthers ==
    "once" \in Range(last_dispatch.invoked) =>
        \A h \in Handlers \ {"once"} :
            Count(last_dispatch.invoked, h) = Count(last_dispatch.before, h)

-----------------------------------------------------------------------------
\* C21: every userPromptOpened event a Page handles gets one of two
\* treatments.  With no dialog callback registered the Page issues exactly
\* one dismiss itself and invokes nothing; with dialog callbacks registered
\* it issues no dismiss and invokes each of them exactly once, in order.
C21_DialogDisposition ==
    last_event.kind = "dialog" =>
        IF last_event.before = << >>
        THEN last_event.dismissed = 1 /\ last_event.invoked = << >>
        ELSE last_event.dismissed = 0
             /\ last_event.invoked = last_event.before

\* C22: every blocked request event of a Page gets exactly one disposition.
\* If some route's pattern matches the URL, the handler of the first such
\* route in registration order is invoked once, no other handler is, and
\* the Page sends no continueRequest of its own; if none matches, no
\* handler is invoked and the Page sends exactly one continueRequest.
C22_OneDisposition ==
    last_request.blocked =>
        IF last_request.matching = {}
        THEN /\ last_request.invoked = << >>
             /\ last_request.issued = <<"continueRequest">>
        ELSE /\ Len(last_request.invoked) = 1
             /\ last_request.invoked[1] \in last_request.matching
             /\ \A j \in last_request.matching : last_request.invoked[1] <= j
             /\ "continueRequest" \notin Range(last_request.issued)

\* C22: with two routes registered whose patterns both match the URL of a
\* blocked request, the request went to the handler of the first only.
C22_Witness ==
    last_request.matching = {1, 2} /\ last_request.invoked = <<1>>

\* A step of unroute that changes anything moves unroute_pc or shortens the
\* list of routes.
UnrouteStep == unroute_pc' # unroute_pc \/ Len(routes') < Len(routes)

\* The step in which a call of unroute returns.
UnrouteEnds ==
    /\ unroute_pc' = "returned"
    /\ unroute_pc = "removing" \/ \E p \in Patterns : UnrouteCalled(p)

\* C23: unroute(pattern) drops the routes registered under the pattern and
\* nothing else.  From its first step on no route of that pattern is left,
\* so no later request is handed to a handler registered under it; the
\* routes of every other pattern are kept, in their order; the callbacks,
\* the waiters and the Browser's lists are not touched; and when the call
\* has returned with no route left, the intercept id of the page is cleared.
C23_UnrouteRemovesPattern ==
    [][UnrouteStep =>
         /\ \A p \in Patterns :
               UnrouteCalled(p) =>
                  /\ \A i \in 1..Len(routes') : routes'[i].pattern # p
                  /\ \A url \in Urls :
                        FirstMatch(routes', url) # 0 =>
                           routes'[FirstMatch(routes', url)].pattern # p
                  /\ routes' = SelectSeq(routes, LAMBDA r : r.pattern # p)
                  /\ UNCHANGED <<listenerVars, contextVars, intercept_id,
                                 route_pc, last_request>>
         /\ UnrouteEnds =>
               /\ routes' = << >> => intercept_id' = "none"
               /\ UNCHANGED <<listenerVars, contextVars, route_pc,
                              last_request>>
      ]_vars

\* C23: unroute has returned after removing the last route of a page that
\* had an intercept: no route is left and the intercept id is cleared.
C23_Witness ==
    /\ unroute_pc = "returned"
    /\ routes = << >>
    /\ intercept_id = "none"
    /\ data_collector_id = "pending"

\* C24: when a blocked request reaches the callable of a sync route, exactly
\* one decision is issued for it: the one of the last of fulfill(),
\* continue_() and abort() the callable called, and continue if it called
\* none of them.
C24_OneDecision ==
    [][\A url \in Urls, body \in Bodies :
          (/\ FirstMatch(routes, url) # 0
           /\ routes[FirstMatch(routes, url)].api = "sync"
           /\ BeforeRequestSent(url, TRUE, body)) =>
              last_request'.issued =
                 <<IF body.calls = << >> THEN "continue"
                   ELSE body.calls[Len(body.calls)]>>
      ]_vars

\* C25: remove_all_listeners(event) empties the callback list of that kind,
\* so a later event of the kind invokes nothing, and leaves the list of
\* every other kind as it was; with no argument it empties every list; with
\* a name it does not know it empties none.  The waiters' futures, the
\* routes and the Browser's lists are not touched.
C25_RemoveAllListeners ==
    [][\A e \in ListenerNames :
          RemoveAllListeners(e) =>
             /\ \A k \in Kinds :
                   IF e = "all" \/ e = k
                   THEN /\ callbacks'[k] = << >>
                        /\ ForEachCallback(callbacks'[k], 1, << >>, <<"a">>,
                                           FALSE).invoked = << >>
                   ELSE callbacks'[k] = callbacks[k]
             /\ UNCHANGED <<waiter_pc, waiter_fut, waiter_kind,
                            waiter_pattern, waiter_elapsed, last_event,
                            routeVars, contextVars>>
      ]_vars

\* C25: the response callbacks that the last response event invoked have
\* been removed, and a dialog callback is still registered.
C25_Witness ==
    /\ last_event.kind = "response"
    /\ last_event.invoked # << >>
    /\ callbacks["response"] = << >>
    /\ callbacks["dialog"] # << >>

\* C26: for a contextCreated event that names a context the Browser has not
\* seen, every page callback (every popup callback if the event names an
\* originalOpener) is invoked exactly once, in order; for an event without
\* a context id or with one seen before, nothing is invoked.
C26_CallbacksOncePerContext ==
    last_context.context # "none" =>
        IF last_context.seen
        THEN last_context.invoked = << >>
        ELSE last_context.invoked = last_context.before

\* C27: a response event resolves every capture waiter whose handler is on
\* the response list, whose pattern matches the event's URL and whose future
\* is still pending: the waiter's result is that event, and its handler is
\* off the list afterwards.
C27_FirstMatchingEventResolves ==
    [][\A url \in Urls :
         PageEvent("response", url) =>
             \A w \in Waiters :
                 ( /\ w \in Range(callbacks["response"])
                   /\ MatchPattern(waiter_pattern[w], url)
                   /\ waiter_fut[w].state = "pending" )
                 => /\ waiter_fut'[w] = Captured(url)
                    /\ w \notin Range(callbacks'["response"])]_vars

\* The lines that decode to a JSON object.
Objects == {line \in Lines : line.kind \notin Malformed}

\* C31: a decoded object with a numeric or string id touches only the
\* correlation table (at most the future stored under that id) and never
\* the event handlers; one with no id and a method goes to the event
\* handlers only; any other object leaves the futures, the handlers and the
\* receive loop as they were.
C31_Classification ==
    [][\A line \in Objects :
         Receive(line) =>
             /\ (HasId(line) /\ Hashable(line)) =>
                   /\ event_handlers' = event_handlers
                   /\ last_dispatch' = last_dispatch
                   /\ \A c \in Callers :
                         fut'[c] # fut[c] =>
                             /\ line.id \in DOMAIN pending
                             /\ pending[line.id] = c
             /\ (~HasId(line) /\ HasMethod(line)) =>
                   /\ fut' = fut
                   /\ last_dispatch'.before = event_handlers
             /\ ~(HasId(line) /\ Hashable(line))
                /\ ~(~HasId(line) /\ HasMethod(line)) =>
                   /\ fut' = fut
                   /\ event_handlers' = event_handlers
                   /\ last_dispatch' = last_dispatch
                   /\ receiver_task' = receiver_task]_vars

Answered(c) == pc[c] = "done" /\ outcome[c].kind \in {"result", "BiDiError"}

C34_NoMutationWhileDispatching == ~last_mutation.dispatching

\* The correlation table holds no entry of send call c.
NoEntry(c) == \A i \in DOMAIN pending : pending[i] # c

\* run() timed out and cancelled its operation.
RunCancelled == op = "cancelled"

\* C35: when run() times out and cancels the operation that waits inside
\* send, the sync caller gets the bridge's TimeoutError, the entry of that
\* send leaves the correlation table (and no other entry does with it), and
\* a response read for its id afterwards changes no future and no entry.
C35_CancelledSendLeavesNoEntry ==
    /\ [](RunCancelled => (run_pc = "idle" /\ run_out = "BridgeTimeoutError"))
    /\ RunCancelled ~> NoEntry(OpCaller)
    /\ [][(RunCancelled /\ ~NoEntry(OpCaller) /\ NoEntry(OpCaller)') =>
              \A i \in DOMAIN pending :
                  i # msg_id[OpCaller] =>
                      i \in DOMAIN pending' /\ pending'[i] = pending[i]]_vars
    /\ [][\A t \in {"success", "error"} :
              ( /\ RunCancelled
                /\ pc[OpCaller] = "done"
                /\ ResponseRead(msg_id[OpCaller], t) )
              => fut' = fut /\ pending' = pending /\ outcome' = outcome]_vars

\* The send of a cancelled sync call has ended with CancelledError while
\* another send still waits, and a response for the cancelled id was read
\* and ignored.
C35_Witness ==
    /\ RunCancelled
    /\ pc[OpCaller] = "done"
    /\ outcome[OpCaller].kind = "CancelledError"
    /\ NoEntry(OpCaller)
    /\ pending # << >>
    /\ last_effect = "ignored"

\* The context identifier of an event: source.context for log.entryAdded,
\* params.context for every other event.
ContextIdentifier(kind, context, source) ==
    IF kind \in LogKinds THEN source ELSE context

\* C36: an event whose context identifier names another context invokes
\* none of this Page's callbacks.
C36_OwnContextOnly ==
    [][\A k \in FilteredKinds, context \in EventContexts,
          source \in EventContexts :
          ( /\ HandleEvent(k, context, source)
            /\ ContextIdentifier(k, context, source) = "other" )
          => /\ last_event'.invoked = << >>
             /\ callbacks' = callbacks]_vars

\* The send calls that have registered and not yet returned or raised.
Active == {c \in Callers : pc[c] \notin {"idle", "done"}}

\* C37: the keys of the correlation table are exactly the ids of the active
\* send calls, each key leading to its own call; and a send that ends, in
\* whatever way, takes its own id out of the table and leaves every other
\* entry as it was.
C37_TableIsActiveSends ==
    /\ [](/\ DOMAIN pending = {msg_id[c] : c \in Active}
          /\ \A c \in Active : pending[msg_id[c]] = c)
    /\ [][\A c \in Callers :
            Ends(c) =>
                /\ DOMAIN pending' = DOMAIN pending \ {msg_id[c]}
                /\ \A i \in DOMAIN pending' : pending'[i] = pending[i]]_vars

\* One send has ended by cancellation of its caller and one by a protocol
\* error, both after they had been registered together.
C37_Witness ==
    /\ \E c \in Callers : outcome[c].kind = "CancelledError"
    /\ \E c \in Callers : outcome[c].kind = "BiDiError"
    /\ pending = << >>

\* What of the collector of a Page is requested or active: the _setup tasks
\* in flight and the collectors of the server no removal is under way for.
RequestedOrActive == setup_tasks + collectors - removals

\* No request callback, no response callback and no route is left, and no
\* collector command is in flight.
LeftWithout ==
    /\ callbacks["request"] = << >>
    /\ callbacks["response"] = << >>
    /\ routes = << >>
    /\ setup_tasks = 0
    /\ removals = 0

\* C38: at most one data collector of a Page is requested or active at any
\* time, and once remove_all_listeners has left the page without request
\* callbacks, response callbacks and routes and the collector commands in
\* flight have ended, the recorded id is unset and the server holds no
\* collector of the page.
C38_OneCollector ==
    /\ RequestedOrActive <= 1
    /\ LeftWithout => data_collector_id = "none" /\ collectors = 0

\* C39: whenever the Page holds a route, _intercept_id names an intercept
\* the server still has installed; the server never holds more than one
\* intercept of the Page, and none that _intercept_id does not record.
C39_InterceptRecorded ==
    /\ routes # << >> => intercept_id = "set" /\ intercepts > 0
    /\ intercepts <= 1
    /\ intercepts > 0 => intercept_id = "set"

\* The capture context managers that have been left: __aexit__ (__exit__)
\* has returned the event, raised TimeoutError, or passed on the exception
\* of the body.
Exited == {w \in Waiters : waiter_pc[w] \in {"returned", "raised", "exited"}}

\* C40: once a capture context manager has exited, whether its body
\* returned or raised, the handler it registered on entry is not in the
\* Page's callback list, where it would consume a later event and keep the
\* Page from dismissing a later dialog.
C40_ExitRemovesHandler ==
    \A w \in Exited : w \notin Range(callbacks[waiter_kind[w]])
=============================================================================
